---- MODULE Spec2Model ----
(***************************************************************************)
(* A model of src/bin/day20.rs: the jigsaw solver of square 0/1 tiles.     *)
(*                                                                         *)
(* A matrix (ndarray Array2<u8>) is a sequence of rows, each a sequence of *)
(* cells; the source's 0-based [r][c] is [r+1][c+1] here.  A HashMap is a  *)
(* function whose DOMAIN is its key set, a Vec a sequence, a panic! (or a  *)
(* failed assert!/expect) a value of the variable panic.                   *)
(***************************************************************************)
EXTENDS Integers, Sequences, FiniteSets, TLC

VARIABLES
    tiles,          \* HashMap<TileId, Tile>: tile id -> its matrix d
    initial_manip,  \* solve1's seed manipulation
    ix,             \* HashMap<EdgePattern, Vec<TileIndexEntry>>
    solution,       \* TileLocationSolution
    todo,           \* HashSet<TileId> of solve1
    pc,             \* where the pipeline stands
    panic,          \* "" or the abort that ended the run
    product,        \* corner_product's result (or "unset" / "panic")
    bitmap,         \* assemble_big_bitmap's result (or "unset" / "panic")
    mat,            \* pure-function checks: the matrix argument
    manip,          \* pure-function checks: the manipulation argument
    other,          \* pure-function checks: a second argument
    result          \* pure-function checks: what the function returned

vars == <<tiles, initial_manip, ix, solution, todo, pc, panic, product, bitmap,
          mat, manip, other, result>>

(***************************************************************************)
(* Bounds of the model.                                                    *)
(***************************************************************************)
\* Largest number of tiles in a catalog drawn from the pool.
MaxTiles == 2
\* Largest side of the matrices the pure functions are applied to.
MaxDim == 2

(***************************************************************************)
(* Direction, Position, Rotation, Manipulation                             *)
(***************************************************************************)
\* Direction::all(): N, E, S, W in this order.
DirectionAll == <<"N", "E", "S", "W">>

Direction == {DirectionAll[i] : i \in DOMAIN DirectionAll}

opposite_direction_WestToNorth(d) ==
    CASE d = "N" -> "S"
      [] d = "E" -> "W"
      [] d = "S" -> "N"
      [] d = "W" -> "N"

opposite_direction(d) ==
    CASE d = "N" -> "S"
      [] d = "E" -> "W"
      [] d = "S" -> "N"
      [] d = "W" -> "E"

Position(x, y) == [x |-> x, y |-> y]

\* Rotation::{Zero, One, Two, Three} as 0..3; a Manipulation is [rot, flip].
\* Manipulation::new(n): rot = n & 0x03, flip = (n & 0x04) = 4, for n in 0..8.
ManipulationNew(n) == [rot |-> n % 4, flip |-> ((n \div 4) % 2 = 1)]

ManipulationNoop == [rot |-> 0, flip |-> FALSE]

\* Manipulation::all(): (0..8).map(Manipulation::new)
ManipulationAll == [i \in 1..8 |-> ManipulationNew(i - 1)]

Manipulations == {ManipulationAll[i] : i \in DOMAIN ManipulationAll}

\* Manipulation::as_string: "R<rot>F<Y|N>"
as_string(m) ==
    <<"R", m.rot, "F", IF m.flip THEN "Y" ELSE "N">>

NRows(M) == Len(M)

NCols(M) == IF Len(M) = 0 THEN 0 ELSE Len(M[1])

do_rot_ThreeAsOne(m, tiledata) ==
    LET h == NRows(tiledata)
        w == NCols(tiledata)
    IN  CASE m.rot = 0 -> tiledata
          [] m.rot = 1 -> [r \in 1..w |-> [c \in 1..h |-> tiledata[c][w + 1 - r]]]
          [] m.rot = 2 -> [r \in 1..h |-> [c \in 1..w |-> tiledata[h + 1 - r][w + 1 - c]]]
          [] m.rot = 3 -> [r \in 1..w |-> [c \in 1..h |-> tiledata[c][w + 1 - r]]]

\* do_rot: One is slice(.., ..;-1) then reversed_axes; Two reverses both axes;
\* Three is slice(..;-1, ..) then reversed_axes.
do_rot(m, tiledata) ==
    LET h == NRows(tiledata)
        w == NCols(tiledata)
    IN  CASE m.rot = 0 -> tiledata
          [] m.rot = 1 -> [r \in 1..w |-> [c \in 1..h |-> tiledata[c][w + 1 - r]]]
          [] m.rot = 2 -> [r \in 1..h |-> [c \in 1..w |-> tiledata[h + 1 - r][w + 1 - c]]]
          [] m.rot = 3 -> [r \in 1..w |-> [c \in 1..h |-> tiledata[h + 1 - c][r]]]

\* do_flip: slice(.., ..;-1) when flip is set.
do_flip(m, tiledata) ==
    IF m.flip
    THEN [r \in 1..NRows(tiledata) |->
            [c \in 1..NCols(tiledata) |-> tiledata[r][NCols(tiledata) + 1 - c]]]
    ELSE tiledata

On_RotateThenFlip(m, M) == do_flip(m, do_rot(m, M))

\* Manipulation::on: do_rot(do_flip(m))
On(m, M) == do_rot(m, do_flip(m, M))

\* Tile::manipulated
manipulated(d, how) == On(how, d)

\* Tile::interior: rows and columns 1..n-1 (0-based) of the manipulated matrix.
interior(d, how) ==
    LET v == manipulated(d, how)
    IN  [r \in 1..(NRows(d) - 2) |-> [c \in 1..(NCols(d) - 2) |-> v[r + 1][c + 1]]]

(***************************************************************************)
(* EdgePattern, EdgeKey                                                    *)
(***************************************************************************)
\* Width of EdgePattern.bits (i32).
PatternBits == 32

RECURSIVE Pow2(_)
Pow2(n) == IF n = 0 THEN 1 ELSE 2 * Pow2(n - 1)

\* (bits << 1) | bit on an i32 in two's complement: bit 30 becomes the sign,
\* bit 31 is dropped.
Bit30 == Pow2(PatternBits - 2)

ShiftInBit(bits, bit) ==
    LET q == Bit30
        low == bits % q
        top == (bits \div q) % 2
    IN  (low * 2 + bit) - (top * q) - (top * q)

\* EdgePattern::from_edge: fold (bits << 1) | bit over the edge; bits is an
\* i32 value at every step.
RECURSIVE FoldEdge(_, _, _)
FoldEdge(edge, i, bits) ==
    IF bits \in Int /\ i > Len(edge) THEN bits
    ELSE FoldEdge(edge, i + 1, ShiftInBit(bits, edge[i]))

from_edge(edge) == FoldEdge(edge, 1, 0)

\* The slice EdgePattern::from_matrix takes: N is row 0, S the last row (both
\* left to right), E the last column, W column 0 (both top to bottom).
EdgeSlice(d, m) ==
    CASE d = "N" -> m[1]
      [] d = "E" -> [r \in 1..NRows(m) |-> m[r][NCols(m)]]
      [] d = "S" -> m[NRows(m)]
      [] d = "W" -> [r \in 1..NRows(m) |-> m[r][1]]

from_matrix(d, m) == from_edge(EdgeSlice(d, m))

EdgeKeyFromMatrix(d, m) == [direction |-> d, pattern |-> from_matrix(d, m)]

opposing(k) == [direction |-> opposite_direction(k.direction), pattern |-> k.pattern]

\* get_edge_keys: the keys of the N, E, S, W sides in this order.
get_edge_keys(m) == [i \in 1..4 |-> EdgeKeyFromMatrix(DirectionAll[i], m)]

edge_match(candidate, neighbour_direction, neighbour) ==
    LET candidate_edge_key == EdgeKeyFromMatrix(neighbour_direction, candidate)
        neighbour_edge_key ==
            EdgeKeyFromMatrix(opposite_direction(neighbour_direction), neighbour)
    IN  opposing(neighbour_edge_key) = candidate_edge_key

get_neighbour(pos, edge) ==
    CASE edge = "N" -> Position(pos.x, pos.y + 1)
      [] edge = "E" -> Position(pos.x + 1, pos.y)
      [] edge = "S" -> Position(pos.x, pos.y - 1)
      [] edge = "W" -> Position(pos.x - 1, pos.y)

(***************************************************************************)
(* TileLocationSolution                                                    *)
(***************************************************************************)
\* The empty HashMap.
EmptyMap == [k \in {} |-> 0]

\* TileLocationSolution::new
SolutionNew ==
    [tile_to_position |-> EmptyMap, position_to_tile |-> EmptyMap, exposed_edges |-> <<>>]

occupied(sol, pos) == pos \in DOMAIN sol.position_to_tile

\* TileLocationSolution::len
SolutionLen(sol) == Cardinality(DOMAIN sol.tile_to_position)

get_position_of_tile(sol, tile_id) ==
    IF tile_id \in DOMAIN sol.tile_to_position
    THEN <<sol.tile_to_position[tile_id]>> ELSE <<>>

\* get_tile_at_position: None is <<>>, Some((tid, manip)) a one-element
\* sequence; a position whose tile has no entry in tile_to_position panics.
get_tile_at_position(sol, pos) ==
    IF pos \in DOMAIN sol.position_to_tile
    THEN LET tid == sol.position_to_tile[pos]
         IN  IF tid \in DOMAIN sol.tile_to_position
             THEN <<[tile_id |-> tid, manipulation |-> sol.tile_to_position[tid].manipulation]>>
             ELSE <<[tile_id |-> tid, manipulation |-> "panic: TileLocationSolution inconsistnecy"]>>
    ELSE <<>>

\* The exposures place_tile pushes for the new piece, side by side from
\* Direction::all()[i] on.
RECURSIVE NewExposures(_, _, _, _, _)
\* NewExposures without the test of occupied(&n): all four sides are pushed.
NewExposures_EverySide(sol, tile_bits, pos, i, acc) ==
    acc \o [k \in 1..Len(DirectionAll) |->
               [edge_pattern |-> from_matrix(DirectionAll[k], tile_bits),
                pos |-> pos, direction |-> DirectionAll[k]]]

NewExposures(sol, tile_bits, pos, i, acc) ==
    IF i > Len(DirectionAll) THEN acc
    ELSE LET d == DirectionAll[i]
             n == get_neighbour(pos, d)
         IN  NewExposures(sol, tile_bits, pos, i + 1,
                 IF ~occupied(sol, n)
                 THEN Append(acc, [edge_pattern |-> from_matrix(d, tile_bits),
                                   pos |-> pos, direction |-> d])
                 ELSE acc)

\* PlaceTileMaps without the insert into position_to_tile.
PlaceTileMaps_TileMapOnly(sol, tile_id, how, pos) ==
    [sol EXCEPT
        !.tile_to_position = (tile_id :> [pos |-> pos, manipulation |-> how]) @@ @]

\* The maps of place_tile after its two inserts.
PlaceTileMaps(sol, tile_id, how, pos) ==
    [sol EXCEPT
        !.tile_to_position = (tile_id :> [pos |-> pos, manipulation |-> how]) @@ @,
        !.position_to_tile = (pos :> tile_id) @@ @]

\* RetainExposed without the filter: every exposed edge is kept.
RetainExposed_KeepAll(sol) == sol.exposed_edges

\* The filter of place_tile: the exposed edges whose neighbour is still free.
RetainExposed(sol) ==
    SelectSeq(sol.exposed_edges,
              LAMBDA exposure : ~occupied(sol, get_neighbour(exposure.pos, exposure.direction)))

\* TileLocationSolution::place_tile; d is the tile's matrix.
place_tile(sol, tile_id, d, how, pos) ==
    IF tile_id \in DOMAIN sol.tile_to_position
    THEN [panic |-> "assertion failed: !self.tile_to_position.contains_key(&tile.id)",
          solution |-> sol]
    ELSE IF pos \in DOMAIN sol.position_to_tile
    THEN [panic |-> "assertion failed: !self.position_to_tile.contains_key(pos)",
          solution |-> sol]
    ELSE LET inserted == PlaceTileMaps(sol, tile_id, how, pos)
             pruned == [inserted EXCEPT !.exposed_edges = RetainExposed(inserted)]
         IN  [panic |-> "",
              solution |-> [pruned EXCEPT !.exposed_edges =
                  NewExposures(pruned, manipulated(d, how), pos, 1, pruned.exposed_edges)]]

\* place without todo.remove(tile_id).
place_KeepsTodo(tile_id, how, pos, tls, sol, td) ==
    [todo |-> td] @@ place_tile(sol, tile_id, tls[tile_id], how, pos)

\* place: the tile must exist, must not be placed, and must leave todo.
place(tile_id, how, pos, tls, sol, td) ==
    IF tile_id \notin DOMAIN tls
    THEN [panic |-> "Tile to be placed is not in the main tile index",
          solution |-> sol, todo |-> td]
    ELSE IF get_position_of_tile(sol, tile_id) # <<>>
    THEN [panic |-> "place() was called to place a tile that was already placed",
          solution |-> sol, todo |-> td]
    ELSE IF tile_id \notin td
    THEN [panic |-> "assertion failed: todo.remove(tile_id)",
          solution |-> sol, todo |-> td]
    ELSE [todo |-> td \ {tile_id}] @@ place_tile(sol, tile_id, tls[tile_id], how, pos)

(***************************************************************************)
(* make_tile_index                                                         *)
(***************************************************************************)
\* The String key of a variant: its cells in row-major order, one character
\* per cell.
MatrixKey(v) ==
    [k \in 1..(NRows(v) * NCols(v)) |->
        v[((k - 1) \div NCols(v)) + 1][((k - 1) % NCols(v)) + 1]]

\* result.entry(pattern).or_insert_with(Vec::new).push(entry)
IndexPush(res, pattern, entry) ==
    IF pattern \in DOMAIN res
    THEN [res EXCEPT ![pattern] = Append(@, entry)]
    ELSE (pattern :> <<entry>>) @@ res

\* The inner loop over get_edge_keys(v): one entry under each side's pattern.
RECURSIVE IndexEdges(_, _, _, _)
\* IndexEdges that files the entry under its first (north) side only.
IndexEdges_NorthOnly(res, keys, entry, i) == IndexPush(res, keys[1].pattern, entry)

IndexEdges(res, keys, entry, i) ==
    IF i > Len(keys) THEN res
    ELSE IndexEdges(IndexPush(res, keys[i].pattern, entry), keys, entry, i + 1)

\* The loop over the 8 variants of one tile; seen_keys holds the String keys
\* met so far, and the assert_eq fails on a key met twice.
RECURSIVE IndexVariants(_, _, _, _, _)
IndexVariant(acc, tid, d, seen_keys, j, m, v, mk) ==
    IF mk \in seen_keys
    THEN [acc EXCEPT !.panic = "assertion failed: seen_keys.get(&mk).unwrap().len() == 1"]
    ELSE IndexVariants(
           [acc EXCEPT !.ix = IndexEdges(@, get_edge_keys(v),
                                  [tile_id |-> tid, manipulation |-> m], 1)],
           tid, d, seen_keys \cup {mk}, j + 1)

IndexVariants(acc, tid, d, seen_keys, j) ==
    IF j > Len(ManipulationAll) \/ acc.panic # "" THEN acc
    ELSE IndexVariant(acc, tid, d, seen_keys, j, ManipulationAll[j],
                      On(ManipulationAll[j], d), MatrixKey(On(ManipulationAll[j], d)))

\* make_tile_index; order is the order in which tiles.values() yields the tiles.
RECURSIVE IndexTiles(_, _, _, _)
IndexTiles(acc, tls, order, i) ==
    IF i > Len(order) \/ acc.panic # "" THEN acc
    ELSE IndexTiles(IndexVariants(acc, order[i], tls[order[i]], {}, 1), tls, order, i + 1)

make_tile_index(tls, order) == IndexTiles([panic |-> "", ix |-> EmptyMap], tls, order, 1)

\* The orders a HashMap of these keys can be iterated in.
IterationOrders(keys) ==
    {o \in [1..Cardinality(keys) -> keys] : \A i, j \in DOMAIN o : i # j => o[i] # o[j]}

(***************************************************************************)
(* candidate_fits_neighbours, get_candidates, solve1x                      *)
(***************************************************************************)
\* The loop of candidate_fits_neighbours over Direction::all(), from side i:
\* a side with no placed neighbour is skipped, the first mismatch returns false.
RECURSIVE FitsFrom(_, _, _, _, _)
FitsSide(cand, proposed_pos, tls, sol, i, neighbour_direction, at) ==
    IF at = <<>>
    THEN FitsFrom(cand, proposed_pos, tls, sol, i + 1)
    ELSE IF ~edge_match(manipulated(tls[cand.tile_id], cand.manipulation),
                        neighbour_direction,
                        manipulated(tls[at[1].tile_id], at[1].manipulation))
    THEN FALSE
    ELSE FitsFrom(cand, proposed_pos, tls, sol, i + 1)

\* FitsFrom that stops after the first side, Direction::all()[0].
FitsFrom_FirstSideOnly(cand, proposed_pos, tls, sol, i) ==
    IF i > 1 THEN TRUE
    ELSE FitsSide(cand, proposed_pos, tls, sol, i, DirectionAll[i],
                  get_tile_at_position(sol, get_neighbour(proposed_pos, DirectionAll[i])))

FitsFrom(cand, proposed_pos, tls, sol, i) ==
    IF i > Len(DirectionAll) THEN TRUE
    ELSE FitsSide(cand, proposed_pos, tls, sol, i, DirectionAll[i],
                  get_tile_at_position(sol, get_neighbour(proposed_pos, DirectionAll[i])))

candidate_fits_neighbours(cand, proposed_pos, tls, sol) ==
    IF occupied(sol, proposed_pos)
    THEN [panic |-> "assertion failed: !solution.occupied(proposed_pos)", fits |-> FALSE]
    ELSE IF cand.tile_id \notin DOMAIN tls
    THEN [panic |-> "candidate not in tile map", fits |-> FALSE]
    ELSE [panic |-> "", fits |-> FitsFrom(cand, proposed_pos, tls, sol, 1)]

\* result.entry(tile_id).or_insert_with(Vec::new).push(manipulation)
CandidatePush(res, tile_id, manipulation) ==
    IF tile_id \in DOMAIN res
    THEN [res EXCEPT ![tile_id] = Append(@, manipulation)]
    ELSE (tile_id :> <<manipulation>>) @@ res

\* The loop of get_candidates over the index list, from entry i: a placed
\* tile is skipped, a candidate that fits is pushed under its tile id.
RECURSIVE CandidatesFrom(_, _, _, _, _, _)
\* CandidateChecked with a break after the first candidate that fits.
CandidateChecked_FirstFitOnly(acc, list, empty_pos, tls, sol, i, cand, f) ==
    IF f.panic # ""
    THEN [acc EXCEPT !.panic = f.panic]
    ELSE IF f.fits
    THEN [acc EXCEPT !.candidates = CandidatePush(@, cand.tile_id, cand.manipulation)]
    ELSE CandidatesFrom(acc, list, empty_pos, tls, sol, i + 1)

CandidateChecked(acc, list, empty_pos, tls, sol, i, cand, f) ==
    IF f.panic # ""
    THEN [acc EXCEPT !.panic = f.panic]
    ELSE CandidatesFrom(
           IF f.fits
           THEN [acc EXCEPT !.candidates = CandidatePush(@, cand.tile_id, cand.manipulation)]
           ELSE acc,
           list, empty_pos, tls, sol, i + 1)

CandidatesFrom(acc, list, empty_pos, tls, sol, i) ==
    IF i > Len(list) \/ acc.panic # "" THEN acc
    ELSE IF get_position_of_tile(sol, list[i].tile_id) # <<>>
    THEN CandidatesFrom(acc, list, empty_pos, tls, sol, i + 1)
    ELSE CandidateChecked(acc, list, empty_pos, tls, sol, i, list[i],
                          candidate_fits_neighbours(list[i], empty_pos, tls, sol))

get_candidates(tls, index, sol, exposed_edge) ==
    LET empty_pos == get_neighbour(exposed_edge.pos, exposed_edge.direction)
    IN  IF get_tile_at_position(sol, empty_pos) # <<>>
        THEN [panic |-> "unexpectedly, position is not empty", candidates |-> EmptyMap]
        ELSE IF exposed_edge.edge_pattern \notin DOMAIN index
        THEN [panic |-> "edge missing from index", candidates |-> EmptyMap]
        ELSE CandidatesFrom([panic |-> "", candidates |-> EmptyMap],
                            index[exposed_edge.edge_pattern], empty_pos, tls, sol, 1)

\* The loop of solve1x over solution.exposed_edges, from edge i: more than
\* one candidate tile defers the spot; the only candidate tile is placed when
\* its manipulation list is the one-element slice [manip]; running out of
\* edges is the no-progress panic.
RECURSIVE Solve1xFrom(_, _, _, _, _)
\* Solve1xEdge with the slice pattern [manip, ..]: the first manipulation of
\* the only candidate tile is placed however many fit.
Solve1xEdge_FirstOfMany(tls, index, sol, td, i, pos, got) ==
    IF got.panic # ""
    THEN [panic |-> got.panic, solution |-> sol, todo |-> td]
    ELSE IF Cardinality(DOMAIN got.candidates) > 1
    THEN Solve1xFrom(tls, index, sol, td, i + 1)
    ELSE IF \E tile_id \in DOMAIN got.candidates : Len(got.candidates[tile_id]) >= 1
    THEN LET tile_id == CHOOSE t \in DOMAIN got.candidates : TRUE
         IN  place(tile_id, got.candidates[tile_id][1], pos, tls, sol, td)
    ELSE Solve1xFrom(tls, index, sol, td, i + 1)

Solve1xEdge(tls, index, sol, td, i, pos, got) ==
    IF got.panic # ""
    THEN [panic |-> got.panic, solution |-> sol, todo |-> td]
    ELSE IF Cardinality(DOMAIN got.candidates) > 1
    THEN Solve1xFrom(tls, index, sol, td, i + 1)
    ELSE IF \E tile_id \in DOMAIN got.candidates : Len(got.candidates[tile_id]) = 1
    THEN LET tile_id == CHOOSE t \in DOMAIN got.candidates : TRUE
         IN  place(tile_id, got.candidates[tile_id][1], pos, tls, sol, td)
    ELSE Solve1xFrom(tls, index, sol, td, i + 1)

Solve1xFrom(tls, index, sol, td, i) ==
    IF i > Len(sol.exposed_edges)
    THEN [panic |-> "solve1x: failed to make any progress", solution |-> sol, todo |-> td]
    ELSE Solve1xEdge(tls, index, sol, td, i,
                     get_neighbour(sol.exposed_edges[i].pos, sol.exposed_edges[i].direction),
                     get_candidates(tls, index, sol, sol.exposed_edges[i]))

solve1x(tls, index, sol, td) ==
    IF SolutionLen(sol) = Cardinality(DOMAIN tls)
    THEN [panic |-> "solve1x was called with all tiles already placed",
          solution |-> sol, todo |-> td]
    ELSE Solve1xFrom(tls, index, sol, td, 1)

\* tiles.keys().min()
MinKey_Greatest(keys) == CHOOSE n \in keys : \A k \in keys : n >= k

MinKey(keys) == CHOOSE n \in keys : \A k \in keys : n <= k

(***************************************************************************)
(* extrema, corners, corner_product                                        *)
(***************************************************************************)
\* min_and_max: the fold of (min, max) over the values from the initial (0, 0).
min_and_max(things) ==
    LET seen == things \cup {0}
    IN  <<CHOOSE lo \in seen : \A v \in seen : lo <= v,
          CHOOSE hi \in seen : \A v \in seen : hi >= v>>

\* extrema with miny and maxy taken from the x coordinates.
extrema_YFromX(sol) ==
    LET xs == min_and_max({p.x : p \in DOMAIN sol.position_to_tile})
        ys == min_and_max({p.x : p \in DOMAIN sol.position_to_tile})
    IN  [minx |-> xs[1], maxx |-> xs[2], miny |-> ys[1], maxy |-> ys[2]]

\* extrema: (minx, maxx, miny, maxy)
extrema(sol) ==
    LET xs == min_and_max({p.x : p \in DOMAIN sol.position_to_tile})
        ys == min_and_max({p.y : p \in DOMAIN sol.position_to_tile})
    IN  [minx |-> xs[1], maxx |-> xs[2], miny |-> ys[1], maxy |-> ys[2]]

\* corners with (minx, maxy) listed twice and (maxx, miny) left out.
corners_TopLeftTwice(sol) ==
    LET e == extrema(sol)
        res == <<Position(e.minx, e.miny), Position(e.minx, e.maxy),
                 Position(e.minx, e.maxy), Position(e.maxx, e.maxy)>>
    IN  IF \E i \in DOMAIN res : res[i] \notin DOMAIN sol.position_to_tile
        THEN [panic |-> "solution is not rectangular", corners |-> res]
        ELSE [panic |-> "", corners |-> res]

\* corners: the four corner positions, or the panic on an unoccupied one.
corners(sol) ==
    LET e == extrema(sol)
        res == <<Position(e.minx, e.miny), Position(e.minx, e.maxy),
                 Position(e.maxx, e.miny), Position(e.maxx, e.maxy)>>
    IN  IF \E i \in DOMAIN res : res[i] \notin DOMAIN sol.position_to_tile
        THEN [panic |-> "solution is not rectangular", corners |-> res]
        ELSE [panic |-> "", corners |-> res]

\* ProductFrom with .sum() for .product().
RECURSIVE ProductFrom_Sum(_, _, _)
ProductFrom_Sum(sol, cs, i) ==
    IF i > Len(cs) THEN 0
    ELSE sol.position_to_tile[cs[i]] + ProductFrom_Sum(sol, cs, i + 1)

RECURSIVE ProductFrom(_, _, _)
ProductFrom(sol, cs, i) ==
    IF i > Len(cs) THEN 1
    ELSE sol.position_to_tile[cs[i]] * ProductFrom(sol, cs, i + 1)

ProductOf(sol, c) ==
    IF c.panic # "" THEN [panic |-> c.panic, value |-> 0]
    ELSE [panic |-> "", value |-> ProductFrom(sol, c.corners, 1)]

corner_product(sol) == ProductOf(sol, corners(sol))

(***************************************************************************)
(* interior_tile_at, assemble_big_bitmap                                   *)
(***************************************************************************)
\* interior_tile_at with an all-0 block for a position that has no tile.
interior_tile_at_BlankWhenMissing(pos, tls, sol) ==
    IF pos \notin DOMAIN sol.position_to_tile
    THEN LET some_tile == tls[CHOOSE id \in DOMAIN tls : TRUE]
         IN  [panic |-> "",
              b |-> [r \in 1..(NRows(some_tile) - 2) |->
                       [c \in 1..(NCols(some_tile) - 2) |-> 0]]]
    ELSE LET tile_id == sol.position_to_tile[pos]
         IN  [panic |-> "",
              b |-> interior(tls[tile_id], sol.tile_to_position[tile_id].manipulation)]

interior_tile_at(pos, tls, sol) ==
    IF pos \notin DOMAIN sol.position_to_tile
    THEN [panic |-> "missing tile", b |-> <<>>]
    ELSE LET tile_id == sol.position_to_tile[pos]
         IN  IF tile_id \notin DOMAIN sol.tile_to_position
             THEN [panic |-> "inconsistent solution", b |-> <<>>]
             ELSE IF tile_id \notin DOMAIN tls
             THEN [panic |-> "unknown tile", b |-> <<>>]
             ELSE [panic |-> "",
                   b |-> interior(tls[tile_id], sol.tile_to_position[tile_id].manipulation)]

\* result.slice_mut(s![ytop..ytop+h, xleft..xleft+w]).assign(&b), 0-based
\* ytop and xleft.
AssignBlock(res, ytop, xleft, h, w, b) ==
    [r \in 1..NRows(res) |->
        [c \in 1..NCols(res) |->
            IF r > ytop /\ r <= ytop + h /\ c > xleft /\ c <= xleft + w
            THEN b[r - ytop][c - xleft]
            ELSE res[r][c]]]

\* The two loops of assemble_big_bitmap: i counts the tile rows from
\* y = maxy down to miny, j the tile columns from x = minx up to maxx.
RECURSIVE AssembleFrom(_, _, _, _, _, _, _)
AssembleTile(acc, tls, sol, e, tile_height, tile_width, k, i, j, got) ==
    IF got.panic # "" THEN [acc EXCEPT !.panic = got.panic]
    ELSE IF NRows(got.b) # tile_height \/ NCols(got.b) # tile_width
    THEN [acc EXCEPT !.panic = "ndarray: could not broadcast array"]
    ELSE AssembleFrom(
           [acc EXCEPT !.result = AssignBlock(@, i * tile_height, j * tile_width,
                                              tile_height, tile_width, got.b)],
           tls, sol, e, tile_height, tile_width, k + 1)

\* AssembleFrom without the .rev(): the tile rows are taken from y = miny up.
AssembleFrom_SouthFirst(acc, tls, sol, e, tile_height, tile_width, k) ==
    LET ncolumns == e.maxx - e.minx + 1
        nrows == e.maxy - e.miny + 1
        i == k \div ncolumns
        j == k % ncolumns
    IN  IF k >= nrows * ncolumns \/ acc.panic # "" THEN acc
        ELSE AssembleTile(acc, tls, sol, e, tile_height, tile_width, k, i, j,
                          interior_tile_at(Position(e.minx + j, e.miny + i), tls, sol))

AssembleFrom(acc, tls, sol, e, tile_height, tile_width, k) ==
    LET ncolumns == e.maxx - e.minx + 1
        nrows == e.maxy - e.miny + 1
        i == k \div ncolumns
        j == k % ncolumns
    IN  IF k >= nrows * ncolumns \/ acc.panic # "" THEN acc
        ELSE AssembleTile(acc, tls, sol, e, tile_height, tile_width, k, i, j,
                          interior_tile_at(Position(e.minx + j, e.maxy - i), tls, sol))

\* The largest cell of the output, None (<<>>) when it has no cell.
MaxOf(cells) ==
    IF cells = {} THEN <<>> ELSE <<CHOOSE v \in cells : \A u \in cells : v >= u>>

MaxCell(res) == MaxOf({res[r][c] : r \in 1..NRows(res), c \in 1..NCols(res)})

\* assemble_big_bitmap; first is the tile tiles.values().next() yields.
\* The match on result.iter().max() that ends assemble_big_bitmap.
CheckFilled(filled, max) ==
    IF filled.panic # "" THEN filled
    ELSE IF max = <<>>
    THEN [filled EXCEPT !.panic = "output is empty"]
    ELSE IF max[1] = 2
    THEN [filled EXCEPT !.panic =
            "some parts of the output array have not been update with the solution"]
    ELSE filled

CheckFilledOf(filled) ==
    CheckFilled(filled, IF filled.panic # "" THEN <<>> ELSE MaxCell(filled.result))

\* The output array before the loops: every cell is the marker 2.
BlankBitmap(e, tile_height, tile_width) ==
    [r \in 1..(tile_height * (e.maxy - e.miny + 1)) |->
        [c \in 1..(tile_width * (e.maxx - e.minx + 1)) |-> 2]]

AssembleWith(tls, sol, e, tile_height, tile_width) ==
    CheckFilledOf(AssembleFrom([panic |-> "",
                                result |-> BlankBitmap(e, tile_height, tile_width)],
                               tls, sol, e, tile_height, tile_width, 0))

assemble_big_bitmap(tls, sol, first) ==
    AssembleWith(tls, sol, extrema(sol),
                 NRows(interior(tls[first], ManipulationNoop)),
                 NCols(interior(tls[first], ManipulationNoop)))

(***************************************************************************)
(* nessie, mask_match, find_image_locations, measure_roughness, solve2     *)
(***************************************************************************)
\* nessie: the 60 cells of beastie in 3 rows of 20.
nessie ==
    << <<0,0,0,0,0,0,0,0,0,0,0,0,0,0,0,0,0,0,1,0>>,
       <<1,0,0,0,0,1,1,0,0,0,0,1,1,0,0,0,0,1,1,1>>,
       <<0,1,0,0,1,0,0,1,0,0,1,0,0,1,0,0,1,0,0,0>> >>

\* mask_match with w_elem == m_elem for every cell.
mask_match_Exact(haystack, top, left, mask) ==
    \A r \in 1..NRows(mask) : \A c \in 1..NCols(mask) :
        mask[r][c] = haystack[top + r][left + c]

\* mask_match: every cell has m_elem == 0 or w_elem != 0; win is the window
\* of haystack with its top-left cell at (0-based) row top, column left.
mask_match(haystack, top, left, mask) ==
    \A r \in 1..NRows(mask) : \A c \in 1..NCols(mask) :
        mask[r][c] = 0 \/ haystack[top + r][left + c] # 0

\* haystack.windows((mh, mw)): the number of windows down and across; none
\* when the mask is larger than the haystack in a dimension.
WindowsDown(haystack, mask) ==
    IF NRows(haystack) >= NRows(mask) THEN NRows(haystack) - NRows(mask) + 1 ELSE 0

WindowsAcross(haystack, mask) ==
    IF NCols(haystack) >= NCols(mask) THEN NCols(haystack) - NCols(mask) + 1 ELSE 0

\* find_image_locations: the windows are enumerated in row-major order, i is
\* the (0-based) number of the window, and a match at i gives
\* (x, y) = (i % haystack_width, i / haystack_width).
find_image_locations(haystack, mask) ==
    LET haystack_width == NCols(haystack)
        across == WindowsAcross(haystack, mask)
        count == WindowsDown(haystack, mask) * across
        matching == SelectSeq([k \in 1..count |-> k - 1],
                        LAMBDA i : mask_match(haystack, i \div across, i % across, mask))
    IN  [k \in 1..Len(matching) |->
            [x |-> matching[k] % haystack_width, y |-> matching[k] \div haystack_width]]

count_ones(m) ==
    Cardinality({rc \in (1..NRows(m)) \X (1..NCols(m)) : m[rc[1]][rc[2]] = 1})

\* usize is 64 bits wide: the value pow64 * 2^64 + plus, with pow64 = 1 for a
\* difference below 0 that has wrapped around.
Usize(n) == [pow64 |-> IF n < 0 THEN 1 ELSE 0, plus |-> n]

\* measure_roughness: count_ones(bitmap) - locations.len() * count_ones(mask)
\* in usize; a difference below 0 panics in a build with overflow checks and
\* wraps around in a build without.
measure_roughness(tweaked, locations, mask, overflow_checks) ==
    LET difference == count_ones(tweaked) - (Len(locations) * count_ones(mask))
    IN  IF difference < 0 /\ overflow_checks
        THEN [panic |-> "attempt to subtract with overflow", value |-> Usize(0)]
        ELSE [panic |-> "", value |-> Usize(difference)]

\* Solve2Order with flip in the outer loop, the order of Manipulation::all().
Solve2Order_FlipOuter == ManipulationAll

\* The manipulations of solve2's two loops in the order they are tried:
\* rot Zero, One, Two, Three (outer), flip false, true (inner).
Solve2Order ==
    [i \in 1..8 |-> [rot |-> (i - 1) \div 2, flip |-> ((i - 1) % 2 = 1)]]

\* solve2's loops from the i-th manipulation on.
RECURSIVE Solve2From(_, _, _, _)
Solve2From(big_bitmap, nessie_mask, i, overflow_checks) ==
    IF i > Len(Solve2Order)
    THEN [panic |-> "found no sea monsters", value |-> Usize(0)]
    ELSE LET tweaked == On(Solve2Order[i], big_bitmap)
             locations == find_image_locations(tweaked, nessie_mask)
         IN  IF Len(locations) # 0
             THEN measure_roughness(tweaked, locations, nessie_mask, overflow_checks)
             ELSE Solve2From(big_bitmap, nessie_mask, i + 1, overflow_checks)

Solve2Of(big, overflow_checks) ==
    IF big.panic # "" THEN [panic |-> big.panic, value |-> Usize(0)]
    ELSE Solve2From(big.result, nessie, 1, overflow_checks)

\* solve2: assemble_big_bitmap, then the search in the 8 orientations.
solve2(tls, sol, first, overflow_checks) ==
    Solve2Of(assemble_big_bitmap(tls, sol, first), overflow_checks)

(***************************************************************************)
(* Tile::from_string, decode_ascii_tile, read_tiles                        *)
(***************************************************************************)
\* A record is its title line and the lines after it, each a sequence of
\* characters; the file is the sequence of its records (the pieces between
\* blank lines, trimmed).
Digit == [c \in {"0", "1", "2", "3", "4", "5", "6", "7", "8", "9"} |->
            CASE c = "0" -> 0 [] c = "1" -> 1 [] c = "2" -> 2 [] c = "3" -> 3
              [] c = "4" -> 4 [] c = "5" -> 5 [] c = "6" -> 6 [] c = "7" -> 7
              [] c = "8" -> 8 [] c = "9" -> 9]

\* str::parse::<i32> on a string of digits: the value, or -1 for the
\* ParseIntError of the empty string and of a value above i32::MAX.
RECURSIVE ParseDigits(_, _, _)
ParseDigits(digits, i, acc) ==
    IF acc \in Int /\ i > Len(digits) THEN (IF Len(digits) = 0 THEN -1 ELSE acc)
    ELSE IF acc > (2147483647 - Digit[digits[i]]) \div 10 THEN -1
    ELSE ParseDigits(digits, i + 1, acc * 10 + Digit[digits[i]])

\* TILE_TITLE_RE "^Tile ([0-9]*):$" and the parse of its group: the id, -1
\* for a parse error, -2 for a line the expression does not match.
TitleId(line) ==
    LET n == Len(line)
    IN  IF /\ n >= 6
           /\ SubSeq(line, 1, 5) = <<"T", "i", "l", "e", " ">>
           /\ line[n] = ":"
           /\ \A i \in 6..(n - 1) : line[i] \in DOMAIN Digit
        THEN ParseDigits(SubSeq(line, 6, n - 1), 1, 0)
        ELSE -2

\* decode_ascii_tile: the cell for the character at (width + 1) * r + c
\* (0-based r, c and position); 3 stands for the index out of bounds.
decode_ascii_tile(r, c, width, chars) ==
    LET pos == (width + 1) * r + c
    IN  IF pos >= Len(chars) THEN 3
        ELSE CASE chars[pos + 1] = "#" -> 1
               [] chars[pos + 1] = "." -> 0
               [] OTHER -> 2

\* Tile::from_string: err is the Err message, panic the panic, else the tile.
from_string(record) ==
    LET rows == record.rows
        id == TitleId(record.title)
        width == Len(rows[1])
        height == Len(rows)
        joined[i \in 0..Len(rows)] ==
            IF i = 0 THEN <<>>
            ELSE IF i = 1 THEN rows[1]
            ELSE joined[i - 1] \o <<"\n">> \o rows[i]
        d == [r \in 1..height |-> [c \in 1..width |->
                decode_ascii_tile(r - 1, c - 1, width, joined[Len(rows)])]]
        cells == {d[r][c] : r \in 1..height, c \in 1..width}
        failed(err, pnc) == [err |-> err, panic |-> pnc, id |-> 0, d |-> <<>>]
    IN  IF id = -2 THEN failed("tile is missing a title", "")
        ELSE IF id = -1 THEN failed("failed to parse as an integer", "")
        ELSE IF Len(rows) = 0 THEN failed("", "index out of bounds")
        ELSE IF width # height THEN failed("Tiles should be square", "")
        ELSE IF 3 \in cells THEN failed("", "index out of bounds")
        ELSE IF 2 \in cells THEN failed("tile data contained unexpected characters", "")
        ELSE [err |-> "", panic |-> "", id |-> id, d |-> d]

\* read_tiles: the records are parsed in order and collected until the first
\* Err, which panics; a later tile replaces an earlier one of the same id.
RECURSIVE ReadFrom(_, _, _)
ReadFrom(records, i, acc) ==
    IF acc \in [DOMAIN acc -> Seq(Seq(Int))] /\ i > Len(records)
    THEN [panic |-> "", tiles |-> acc]
    ELSE LET t == from_string(records[i])
         IN  IF t.panic # "" THEN [panic |-> t.panic, tiles |-> EmptyMap]
             ELSE IF t.err # ""
             THEN [panic |-> "tiles are not in the expected format", tiles |-> EmptyMap]
             ELSE ReadFrom(records, i + 1, (t.id :> t.d) @@ acc)

read_tiles(records) == ReadFrom(records, 1, EmptyMap)

(***************************************************************************)
(* The inputs: catalogs of tiles                                           *)
(***************************************************************************)
\* The 4-tile fixture of self_test (case1): '#' is 1, '.' is 0.
SelfTestTiles ==
    (1 :> << <<0,1,1,1,0>>, <<1,0,0,0,1>>, <<1,0,0,0,0>>, <<1,0,0,0,0>>, <<1,0,0,0,0>> >>) @@
    (2 :> << <<0,1,0,0,1>>, <<1,0,0,0,0>>, <<0,0,0,0,0>>, <<0,0,0,0,1>>, <<0,0,1,0,0>> >>) @@
    (3 :> << <<1,0,0,0,0>>, <<0,0,0,0,0>>, <<1,0,0,0,0>>, <<1,0,0,0,1>>, <<0,1,0,1,1>> >>) @@
    (4 :> << <<0,0,1,0,0>>, <<0,0,0,0,0>>, <<0,0,0,0,1>>, <<1,0,0,0,0>>, <<1,1,1,1,1>> >>)

\* 4x4 tiles the other catalogs are drawn from: four with 8 distinct variants
\* and one (the last) that a manipulation other than the identity leaves
\* unchanged.
Pool ==
    << << <<1,0,0,0>>, <<1,1,1,0>>, <<1,1,0,0>>, <<0,1,0,1>> >>,
       << <<1,0,1,1>>, <<1,1,1,1>>, <<0,0,1,1>>, <<0,1,0,0>> >>,
       << <<1,1,1,1>>, <<1,0,0,1>>, <<0,0,1,0>>, <<0,0,0,1>> >>,
       << <<0,0,0,0>>, <<1,1,1,0>>, <<1,0,1,1>>, <<0,1,1,1>> >>,
       << <<1,1,0,1>>, <<1,1,1,0>>, <<0,0,1,1>>, <<0,0,1,1>> >> >>

Catalog(pick) == [id \in DOMAIN pick |-> Pool[pick[id]]]

\* The catalogs with ids 1..k, k <= MaxTiles, each tile any tile of the pool.
PoolCatalogs ==
    UNION {{Catalog(pick) : pick \in [1..k -> DOMAIN Pool]} : k \in 0..MaxTiles}

\* Three-tile catalogs of pool tiles: the first three tile a 1x3 strip in one
\* way only, the last in several ways.
StripCatalogs ==
    {Catalog(<<2, 1, 4>>), Catalog(<<1, 2, 4>>), Catalog(<<1, 3, 4>>), Catalog(<<1, 1, 2>>)}

\* Four 4x4 tiles that tile a 2x2 square in one way only.
SquareTiles ==
    (1 :> << <<1,0,1,1>>, <<0,0,0,1>>, <<0,0,0,0>>, <<0,0,1,1>> >>) @@
    (2 :> << <<0,1,0,0>>, <<0,0,0,0>>, <<1,1,1,0>>, <<0,1,0,0>> >>) @@
    (3 :> << <<1,0,0,1>>, <<0,0,0,1>>, <<0,0,0,1>>, <<0,0,1,0>> >>) @@
    (4 :> << <<1,1,0,0>>, <<0,0,0,1>>, <<0,1,1,0>>, <<1,1,1,0>> >>)

\* Two tiles one cell wider than an EdgePattern has bits; all cells are 0 but
\* the listed ones.  The east border of tile 1 and the west border of tile 2
\* differ in their first (northmost) cell only.
WideDim == PatternBits + 1

WideTile(ones) ==
    [r \in 1..WideDim |-> [c \in 1..WideDim |-> IF <<r, c>> \in ones THEN 1 ELSE 0]]

WideTiles ==
    (1 :> WideTile({<<1, WideDim>>, <<5, WideDim>>, <<2, 3>>})) @@
    (2 :> WideTile({<<5, 1>>, <<2, 3>>}))

Catalogs == PoolCatalogs \cup StripCatalogs \cup {SelfTestTiles, SquareTiles, WideTiles}

Unset == [status |-> "unset", panic |-> "", value |-> 0, result |-> <<>>]

\* What a call left behind: its panic, or the value or matrix it returned.
Outcome(got) ==
    IF got.panic # ""
    THEN [Unset EXCEPT !.status = "panic", !.panic = got.panic]
    ELSE [status |-> "returned"] @@ got @@ Unset

(***************************************************************************)
(* The pipeline: make_tile_index, solve1, corner_product,                  *)
(* assemble_big_bitmap                                                     *)
(***************************************************************************)
Init ==
    /\ tiles \in Catalogs
    /\ initial_manip = ManipulationNoop
    /\ ix = EmptyMap
    /\ solution = SolutionNew
    /\ todo = {}
    /\ pc = "start"
    /\ panic = ""
    /\ product = Unset
    /\ bitmap = Unset
    /\ mat = <<>> /\ manip = ManipulationNoop /\ other = <<>> /\ result = <<>>

Abort(message) ==
    /\ pc' = "panicked"
    /\ panic' = message

Indexed(got) ==
    IF got.panic # ""
    THEN Abort(got.panic) /\ UNCHANGED ix
    ELSE ix' = got.ix /\ pc' = "indexed" /\ UNCHANGED panic

\* make_tile_index(&tiles), the tiles met in any order.
MakeTileIndex ==
    /\ pc = "start"
    /\ \E order \in IterationOrders(DOMAIN tiles) : Indexed(make_tile_index(tiles, order))
    /\ UNCHANGED <<tiles, initial_manip, solution, todo, product, bitmap,
                   mat, manip, other, result>>

Seeded(placed) ==
    IF placed.panic # ""
    THEN Abort(placed.panic) /\ UNCHANGED <<solution, todo>>
    ELSE /\ solution' = placed.solution
         /\ todo' = placed.todo
         /\ pc' = "solving"
         /\ UNCHANGED panic

\* solve1(tiles, ix, initial_manip) up to its loop: todo is every id; no tile
\* returns the empty solution, else the lowest id is placed at (0,0) with
\* initial_manip.
Solve1Seed ==
    /\ pc = "indexed"
    /\ \E seed \in Manipulations :
         /\ initial_manip' = seed
         /\ IF DOMAIN tiles = {}
            THEN /\ solution' = SolutionNew
                 /\ todo' = {}
                 /\ pc' = "returned"
                 /\ UNCHANGED panic
            ELSE Seeded(place(MinKey(DOMAIN tiles), seed, Position(0, 0),
                              tiles, SolutionNew, DOMAIN tiles))
    /\ UNCHANGED <<tiles, ix, product, bitmap, mat, manip, other, result>>

Scanned(got) ==
    IF got.panic # ""
    THEN Abort(got.panic) /\ UNCHANGED <<solution, todo>>
    ELSE IF Cardinality(got.todo) >= Cardinality(todo)
    THEN Abort("solve1: no progress was made in call to solve1x.")
         /\ UNCHANGED <<solution, todo>>
    ELSE /\ solution' = got.solution
         /\ todo' = got.todo
         /\ UNCHANGED <<pc, panic>>

\* One turn of solve1's while loop: a call of solve1x and the progress check.
Solve1Scan ==
    /\ pc = "solving"
    /\ todo # {}
    /\ Scanned(solve1x(tiles, ix, solution, todo))
    /\ UNCHANGED <<tiles, initial_manip, ix, product, bitmap, mat, manip, other, result>>

\* Solve1Return with the loop condition todo.len() > 1.
Solve1Return_OneLeft ==
    /\ pc = "solving"
    /\ Cardinality(todo) <= 1
    /\ pc' = "returned"
    /\ UNCHANGED <<tiles, initial_manip, ix, solution, todo, panic, product, bitmap,
                   mat, manip, other, result>>

\* solve1's loop ends with todo empty and the solution is returned.
Solve1Return ==
    /\ pc = "solving"
    /\ todo = {}
    /\ pc' = "returned"
    /\ UNCHANGED <<tiles, initial_manip, ix, solution, todo, panic, product, bitmap,
                   mat, manip, other, result>>

\* corner_product(&sol) on the solution solve1 returned.
CornerProduct ==
    /\ pc = "returned"
    /\ product.status = "unset"
    /\ product' = Outcome(corner_product(solution))
    /\ UNCHANGED <<tiles, initial_manip, ix, solution, todo, pc, panic, bitmap,
                   mat, manip, other, result>>

\* assemble_big_bitmap(tiles, solution) on the solution solve1 returned.
AssembleBigBitmap ==
    /\ pc = "returned"
    /\ bitmap.status = "unset"
    /\ IF DOMAIN tiles = {}
       THEN bitmap' = [Unset EXCEPT !.status = "panic", !.panic = "input contains no tiles"]
       ELSE \E first \in DOMAIN tiles :
              bitmap' = Outcome(assemble_big_bitmap(tiles, solution, first))
    /\ UNCHANGED <<tiles, initial_manip, ix, solution, todo, pc, panic, product,
                   mat, manip, other, result>>

Next ==
    \/ MakeTileIndex
    \/ Solve1Seed
    \/ Solve1Scan
    \/ Solve1Return
    \/ CornerProduct
    \/ AssembleBigBitmap

Spec == Init /\ [][Next]_vars

\* solve1 is sequential code: while it has a next step it takes one.  This is
\* weak fairness of its three steps, with their enabling condition written
\* out: a step of solve1 is possible exactly when pc is "indexed" or "solving".
FairSpec ==
    /\ Init /\ [][Next]_vars
    /\ \/ []<>(pc \notin {"indexed", "solving"})
       \/ []<><<Solve1Seed \/ Solve1Scan \/ Solve1Return>>_vars

(***************************************************************************)
(* Properties of the solution solve1 returns                               *)
(***************************************************************************)
Placed == DOMAIN solution.tile_to_position

PositionOf(t) == solution.tile_to_position[t].pos

\* The matrix of a placed tile as it lies in the solution.
PlacedMatrix(t) == manipulated(tiles[t], solution.tile_to_position[t].manipulation)

\* The placed tiles t, u with u at the position next to t in direction d.
Touching(t, d, u) ==
    /\ t \in Placed /\ u \in Placed
    /\ PositionOf(u) = get_neighbour(PositionOf(t), d)

\* C1: in every solution solve1 returns, wherever a placed tile has a placed
\* neighbour in direction d, the tile's side-d border and the neighbour's
\* opposite border are the same sequence of cells.
C1_TouchingBordersEqual ==
    pc = "returned" =>
        \A t \in Placed : \A u \in Placed : \A d \in Direction :
            Touching(t, d, u) =>
                EdgeSlice(d, PlacedMatrix(t))
                    = EdgeSlice(opposite_direction(d), PlacedMatrix(u))

Occupied == DOMAIN solution.position_to_tile

Least(values) == CHOOSE lo \in values : \A v \in values : lo <= v

Greatest(values) == CHOOSE hi \in values : \A v \in values : hi >= v

\* The positions of the smallest rectangle around the occupied positions.
BoundingBox ==
    IF Occupied = {} THEN {}
    ELSE {Position(x, y) :
            x \in Least({p.x : p \in Occupied})..Greatest({p.x : p \in Occupied}),
            y \in Least({p.y : p \in Occupied})..Greatest({p.y : p \in Occupied})}

\* Every position of the bounding rectangle is occupied.
FillsBox == BoundingBox = Occupied

Frontier == {get_neighbour(p, d) : p \in Occupied, d \in Direction} \ Occupied

\* Tile t in manipulation m passes the validation at the empty position p:
\* edge_match holds against every placed neighbour of p.
Passes(t, m, p) ==
    \A d \in Direction :
        get_neighbour(p, d) \in Occupied =>
            edge_match(manipulated(tiles[t], m), d,
                       PlacedMatrix(solution.position_to_tile[get_neighbour(p, d)]))

PassingPairs(p) == {tm \in todo \X Manipulations : Passes(tm[1], tm[2], p)}

NoProgress ==
    {"solve1x: failed to make any progress", "solve1: no progress was made in call to solve1x."}

\* One turn of the loop placed tile t in manipulation m at p.
PlacedAt(t, m, p) ==
    /\ todo' = todo \ {t}
    /\ solution'.tile_to_position =
           (t :> [pos |-> p, manipulation |-> m]) @@ solution.tile_to_position
    /\ solution'.position_to_tile = (p :> t) @@ solution.position_to_tile

\* The pairs passing at p are one pair, and the turn placed it at p.
SolePairPlaced(p, pairs) ==
    /\ Cardinality(pairs) = 1
    /\ \E tm \in pairs : PlacedAt(tm[1], tm[2], p)

C3_Turn ==
    (pc = "solving" /\ todo # {}) =>
        /\ solution' # solution =>
               \E p \in Frontier : SolePairPlaced(p, PassingPairs(p))
        /\ (\A p \in Frontier : Cardinality(PassingPairs(p)) # 1) =>
               /\ pc' = "panicked"
               /\ panic' \in NoProgress
               /\ solution' = solution

\* C3: a turn of solve1's loop places a tile at an empty position only when
\* exactly one pair of an unplaced tile and a manipulation passes the
\* validation there; when no frontier position has exactly one such pair and
\* tiles remain, the turn aborts with the no-progress failure, and an aborted
\* run never returns a solution.
C3_NeverGuesses ==
    [][C3_Turn /\ (pc = "panicked" => pc' = "panicked")]_vars

\* A run that placed a tile in a turn of the loop and then aborted for lack
\* of progress with tiles left.
C3_Witness ==
    /\ pc = "panicked"
    /\ panic \in NoProgress
    /\ Cardinality(Occupied) >= 2
    /\ todo # {}

(***************************************************************************)
(* Properties of extrema, corners and corner_product                       *)
(***************************************************************************)
\* The least and greatest coordinates of the occupied positions.
TrueExtrema ==
    [minx |-> Least({p.x : p \in Occupied}), maxx |-> Greatest({p.x : p \in Occupied}),
     miny |-> Least({p.y : p \in Occupied}), maxy |-> Greatest({p.y : p \in Occupied})]

\* The four corner positions of a rectangle, one by one.
CornersOf(e) ==
    <<Position(e.minx, e.miny), Position(e.minx, e.maxy),
      Position(e.maxx, e.miny), Position(e.maxx, e.maxy)>>

\* The product of the ids at four occupied positions.
IdProduct(cs) ==
    solution.position_to_tile[cs[1]] * solution.position_to_tile[cs[2]]
        * solution.position_to_tile[cs[3]] * solution.position_to_tile[cs[4]]

\* What corner_product is to leave for the corner positions cs.
ProductIs(cs) ==
    IF \A i \in 1..4 : cs[i] \in Occupied
    THEN product.status = "returned" /\ product.value = IdProduct(cs)
    ELSE product.status = "panic"

\* The tiles t and u lie side by side, their touching borders equal cell for
\* cell.
SharedEdge(t, u) ==
    \E d \in Direction :
        /\ Touching(t, d, u)
        /\ EdgeSlice(d, PlacedMatrix(t)) = EdgeSlice(opposite_direction(d), PlacedMatrix(u))

Diagonal(t, u) ==
    /\ PositionOf(t).x # PositionOf(u).x
    /\ PositionOf(t).y # PositionOf(u).y

\* C4: on the four 5x5 tiles of self_test, solve1 with the identity seed
\* never aborts and returns the 2x2 block with tile 1 at (0,0), tiles 2 and 3
\* on two sides of tile 1, tile 4 diagonally opposite, every shared edge
\* equal, and corner_product is 24.
C4_SelfTestLayout ==
    (tiles = SelfTestTiles /\ initial_manip = ManipulationNoop) =>
        /\ pc # "panicked"
        /\ pc = "returned" =>
            /\ Placed = {1, 2, 3, 4}
            /\ PositionOf(1) = Position(0, 0)
            /\ Cardinality(BoundingBox) = 4 /\ FillsBox
            /\ SharedEdge(1, 2) /\ SharedEdge(1, 3)
            /\ SharedEdge(4, 2) /\ SharedEdge(4, 3)
            /\ Diagonal(1, 4) /\ Diagonal(2, 3)
            /\ product.status # "unset" =>
                   product.status = "returned" /\ product.value = 24

\* The fixture solved from the identity seed, its corner product taken.
C4_Witness ==
    /\ tiles = SelfTestTiles /\ initial_manip = ManipulationNoop
    /\ pc = "returned"
    /\ product.status = "returned" /\ product.value = 24

TileSide == NRows(tiles[MinKey(DOMAIN tiles)])

BoxWidth == TrueExtrema.maxx - TrueExtrema.minx + 1

BoxHeight == TrueExtrema.maxy - TrueExtrema.miny + 1

\* The matrix of the tile at column j, row i of the rectangle, rows counted
\* from the north (max y), both from 0.
MatrixAt(i, j) ==
    PlacedMatrix(solution.position_to_tile[
        Position(TrueExtrema.minx + j, TrueExtrema.maxy - i)])

\* The block of out for the tile at row i, column j is the tile's matrix m
\* without its border.
BlockIsInterior(out, m, i, j, n) ==
    \A r \in 0..(n - 3) : \A c \in 0..(n - 3) :
        out[i * (n - 2) + r + 1][j * (n - 2) + c + 1] = m[r + 2][c + 2]

BitmapIs(out, n, w, h) ==
    /\ NRows(out) = (n - 2) * h
    /\ \A r \in 1..NRows(out) : Len(out[r]) = (n - 2) * w
    /\ \A r \in 1..NRows(out) : \A c \in 1..Len(out[r]) : out[r][c] \in {0, 1}
    /\ \A i \in 0..(h - 1) : \A j \in 0..(w - 1) :
           BlockIsInterior(out, MatrixAt(i, j), i, j, n)

\* C10: for a returned solution that fills a rectangle of W x H positions
\* with N x N tiles, assemble_big_bitmap returns a 0/1 matrix of (N-2)*H rows
\* and (N-2)*W columns whose cell [i*(N-2)+r][j*(N-2)+c] is cell [r+1][c+1]
\* of the manipulated matrix of the tile at (minx+j, maxy-i).
C10_BitmapOfInteriors ==
    (pc = "returned" /\ bitmap.status # "unset" /\ Occupied # {} /\ FillsBox) =>
        /\ bitmap.status = "returned"
        /\ BitmapIs(bitmap.result, TileSide, BoxWidth, BoxHeight)

\* A bitmap assembled from two rows and two columns of tiles.
C10_Witness ==
    /\ pc = "returned" /\ bitmap.status = "returned"
    /\ Occupied # {} /\ FillsBox
    /\ BoxWidth >= 2 /\ BoxHeight >= 2
    /\ \E r \in 1..NRows(bitmap.result) : \E c \in 1..Len(bitmap.result[r]) :
           bitmap.result[r][c] = 1

(***************************************************************************)
(* The tilings of a catalog, and solve1 on a catalog with one tiling       *)
(***************************************************************************)
\* A tiling of a rectangle w cells wide is a sequence of [tile, manip], one
\* per cell, row after row from the south-west cell; cell k has cell k - 1 to
\* its west (in the same row) and cell k - w to its south.
\* The border on side d of every tile in every manipulation.
BordersOf(tls) ==
    [key \in (DOMAIN tls) \X Manipulations \X Direction |->
        EdgeSlice(key[3], On(key[2], tls[key[1]]))] @@ EmptyMap

TilingBorder(borders, piece, d) == borders[<<piece.tile, piece.manip, d>>]

FitsTiling(tls, borders, partial, piece, w) ==
    /\ \A k \in DOMAIN partial : partial[k].tile # piece.tile
    /\ piece.tile = MinKey(DOMAIN tls) => piece.manip = ManipulationNoop
    /\ (Len(partial) % w # 0) =>
           TilingBorder(borders, piece, "W")
               = TilingBorder(borders, partial[Len(partial)], "E")
    /\ (Len(partial) >= w) =>
           TilingBorder(borders, piece, "S")
               = TilingBorder(borders, partial[Len(partial) + 1 - w], "N")

Pieces(tls) == {[tile |-> t, manip |-> m] : t \in DOMAIN tls, m \in Manipulations}

\* The tilings of a rectangle w wide that extend one of the partial tilings.
RECURSIVE TilingsFrom(_, _, _, _, _)
TilingsFrom(tls, borders, partials, w, k) ==
    IF k > Cardinality(DOMAIN tls) THEN partials
    ELSE TilingsFrom(tls, borders,
                     {Append(pp[1], pp[2]) :
                         pp \in {qq \in partials \X Pieces(tls) :
                                    FitsTiling(tls, borders, qq[1], qq[2], w)}},
                     w, k + 1)

TilingsWith(tls, borders) ==
    UNION {{[width |-> w, pieces |-> t] : t \in TilingsFrom(tls, borders, {<<>>}, w, 1)} :
              w \in {v \in 1..Cardinality(DOMAIN tls) : Cardinality(DOMAIN tls) % v = 0}}

\* The tilings of a catalog: every tile once in a filled rectangle, touching
\* borders equal cell for cell, one tiling for each class of tilings that the
\* eight symmetries of the whole rectangle turn into one another (the one
\* with the lowest id unmanipulated).
Tilings(tls) == TilingsWith(tls, BordersOf(tls))

\* The ids at the four corners of a tiling.
TilingCorners(t) ==
    {t.pieces[k].tile : k \in {1, t.width, Len(t.pieces) + 1 - t.width, Len(t.pieces)}}

TilingCornerProduct(t) ==
    t.pieces[1].tile * t.pieces[t.width].tile
        * t.pieces[Len(t.pieces) + 1 - t.width].tile * t.pieces[Len(t.pieces)].tile

\* The ids at the four corners of the bounding rectangle of the solution.
SolutionCorners ==
    IF \A i \in 1..4 : CornersOf(TrueExtrema)[i] \in Occupied
    THEN {solution.position_to_tile[CornersOf(TrueExtrema)[i]] : i \in 1..4}
    ELSE {}

TouchingBordersEqual ==
    \A t \in Placed : \A u \in Placed : \A d \in Direction :
        Touching(t, d, u) =>
            EdgeSlice(d, PlacedMatrix(t))
                = EdgeSlice(opposite_direction(d), PlacedMatrix(u))

SameCornersAs(t) ==
    /\ SolutionCorners = TilingCorners(t)
    /\ product.status # "unset" =>
           product.status = "returned" /\ product.value = TilingCornerProduct(t)

\* With ts the tilings of the catalog: there is one only, and solve1 has not
\* aborted but ended with the corners of that tiling.
OnlyTilingSolved(ts) ==
    Cardinality(ts) = 1 =>
        /\ panic \notin NoProgress
        /\ pc = "returned" => \A t \in ts : SameCornersAs(t)

OnlyTilingCorners(ts) == Cardinality(ts) = 1 => \A t \in ts : SameCornersAs(t)

SquareMatrices == UNION {[1..n -> [1..n -> {0, 1}]] : n \in 1..MaxDim}

\* The matrices the calls are made on: the small squares and the tiles of
\* self_test's fixture.
TestMatrices == SquareMatrices \cup {SelfTestTiles[id] : id \in DOMAIN SelfTestTiles}

\* No catalog is loaded and nothing is solved.
PipelineIdle ==
    /\ tiles = EmptyMap
    /\ initial_manip = ManipulationNoop
    /\ ix = EmptyMap
    /\ solution = SolutionNew
    /\ todo = {}
    /\ panic = ""
    /\ product = Unset
    /\ bitmap = Unset

InitManipulation ==
    /\ mat \in TestMatrices
    /\ manip = ManipulationNoop
    /\ other = <<>>
    /\ result = <<>>
    /\ pc = "start"
    /\ PipelineIdle

\* result = m.on(mat)
ManipulationOn ==
    /\ pc = "start"
    /\ \E m \in Manipulations :
          /\ manip' = m
          /\ result' = On(m, mat)
    /\ pc' = "manipulated"
    /\ UNCHANGED <<tiles, initial_manip, ix, solution, todo, panic, product, bitmap,
                   mat, other>>

\* other = m2.on(result), with the m2 that was applied
ManipulationOnResult ==
    /\ pc = "manipulated"
    /\ \E m2 \in Manipulations :
          other' = [manipulation |-> m2, matrix |-> On(m2, result)]
    /\ pc' = "manipulated twice"
    /\ UNCHANGED <<tiles, initial_manip, ix, solution, todo, panic, product, bitmap,
                   mat, manip, result>>

NextManipulation ==
    \/ ManipulationOn
    \/ ManipulationOnResult

SpecManipulation == InitManipulation /\ [][NextManipulation]_vars

InitEdgeMatch ==
    /\ mat \in TestMatrices
    /\ other \in {B \in TestMatrices : Len(B) = Len(mat)}
    /\ manip = ManipulationNoop
    /\ result = <<>>
    /\ pc = "start"
    /\ PipelineIdle

\* edge_match(mat, d, other) and edge_match(other, opposite_direction(d), mat)
EdgeMatch ==
    /\ pc = "start"
    /\ \E d \in Direction :
          result' = [direction |-> d,
                     forward |-> edge_match(mat, d, other),
                     backward |-> edge_match(other, opposite_direction(d), mat)]
    /\ pc' = "matched"
    /\ UNCHANGED <<tiles, initial_manip, ix, solution, todo, panic, product, bitmap,
                   mat, manip, other>>

NextEdgeMatch == EdgeMatch

SpecEdgeMatch == InitEdgeMatch /\ [][NextEdgeMatch]_vars

(***************************************************************************)
(* C7, C8: the manipulations                                               *)
(***************************************************************************)
\* The manipulation that undoes m: a mirrored manipulation is a reflection
\* and undoes itself, a rotation is undone by the rotation the other way.
Inverse(m) ==
    IF m.flip THEN m ELSE [rot |-> (4 - m.rot) % 4, flip |-> FALSE]

\* C7: every manipulation of Manipulation::all() has an inverse in
\* Manipulation::all(): applying it to m.on(M) gives M back, for every
\* square 0/1 matrix M.
C7_ClosedUnderInversion ==
    /\ \A m \in Manipulations : Inverse(m) \in Manipulations
    /\ (pc = "manipulated twice" /\ other.manipulation = Inverse(manip)) =>
           other.matrix = mat

\* A quarter turn of an asymmetric matrix undone by three quarter turns.
C7_Witness ==
    /\ pc = "manipulated twice"
    /\ manip = [rot |-> 1, flip |-> FALSE]
    /\ other.manipulation = [rot |-> 3, flip |-> FALSE]
    /\ result # mat
    /\ other.matrix = mat

\* The mirror image: every row in reverse column order.
Mirror(M) == [r \in 1..Len(M) |-> [c \in 1..Len(M) |-> M[r][Len(M) + 1 - c]]]

\* A quarter turn counter-clockwise: the last column becomes the first row.
QuarterTurn(M) == [r \in 1..Len(M) |-> [c \in 1..Len(M) |-> M[c][Len(M) + 1 - r]]]

RECURSIVE Turned(_, _)
Turned(k, M) == IF k = 0 THEN M ELSE QuarterTurn(Turned(k - 1, M))

SameSize(R, M) == Len(R) = Len(M) /\ \A r \in 1..Len(R) : Len(R[r]) = Len(M)

\* What self_test expects of tile 4 under R1FN and R1FY.
Tile4R1FN ==
    << <<0,0,1,0,1>>, <<0,0,0,0,1>>, <<1,0,0,0,1>>, <<0,0,0,0,1>>, <<0,0,0,1,1>> >>

Tile4R1FY ==
    << <<0,0,0,1,1>>, <<0,0,0,0,1>>, <<1,0,0,0,1>>, <<0,0,0,0,1>>, <<0,0,1,0,1>> >>

\* C8: m.on(M) is the mirror image (when flip is set) turned counter-clockwise
\* by rot quarter turns, of the size of M; for rot = One the cell [r][c] is
\* M[c][n-1-r] without flip and M[c][r] with flip (0-based; rows and columns
\* count from 1 here); Manipulation::all() is R0FN, R1FN, R2FN, R3FN, R0FY,
\* R1FY, R2FY, R3FY, eight distinct values.
C8_MirrorThenRotate ==
    /\ [i \in 1..8 |-> as_string(ManipulationAll[i])]
         = << <<"R", 0, "F", "N">>, <<"R", 1, "F", "N">>, <<"R", 2, "F", "N">>,
              <<"R", 3, "F", "N">>, <<"R", 0, "F", "Y">>, <<"R", 1, "F", "Y">>,
              <<"R", 2, "F", "Y">>, <<"R", 3, "F", "Y">> >>
    /\ Cardinality(Manipulations) = 8
    /\ pc \in {"manipulated", "manipulated twice"} =>
         LET n == Len(mat) IN
         /\ SameSize(result, mat)
         /\ result = Turned(manip.rot, IF manip.flip THEN Mirror(mat) ELSE mat)
         /\ (manip.rot = 1 /\ ~manip.flip) =>
                \A r, c \in 1..n : result[r][c] = mat[c][n + 1 - r]
         /\ (manip.rot = 1 /\ manip.flip) =>
                \A r, c \in 1..n : result[r][c] = mat[c][r]
         /\ (mat = SelfTestTiles[4] /\ manip.rot = 1) =>
                result = IF manip.flip THEN Tile4R1FY ELSE Tile4R1FN

\* Tile 4 of the fixture mirrored and turned once, which differs from turning
\* it once and mirroring the outcome.
C8_Witness ==
    /\ pc = "manipulated"
    /\ mat = SelfTestTiles[4]
    /\ manip = [rot |-> 1, flip |-> TRUE]
    /\ result = Tile4R1FY
    /\ result # Mirror(QuarterTurn(mat))

(***************************************************************************)
(* C9: edge_match                                                          *)
(***************************************************************************)
\* C9: for square 0/1 matrices A and B of the same size and every direction
\* d, edge_match(A, d, B) = edge_match(B, opposite_direction(d), A).
C9_EdgeMatchSymmetric ==
    pc = "matched" => result.forward = result.backward

\* Tile 1 of the fixture has tile 2 to its east, as self_test asserts.
C9_Witness ==
    /\ pc = "matched"
    /\ mat = SelfTestTiles[1] /\ other = SelfTestTiles[2]
    /\ result.direction = "E"
    /\ result.forward /\ result.backward

(***************************************************************************)
(* corner_product and assemble_big_bitmap called on solutions of any shape *)
(***************************************************************************)
\* The positions the shapes are cut from: the 3x3 block around (0, 0).
ShapeGrid == {Position(x, y) : x \in -1..1, y \in -1..1}

\* The positions of shape reached from seen by steps to a neighbour.
RECURSIVE GrowFrom(_, _)
GrowFrom(shape, seen) ==
    LET more == {p \in shape \ seen : \E d \in Direction : get_neighbour(p, d) \in seen}
    IN  IF more = {} THEN seen ELSE GrowFrom(shape, seen \cup more)

\* What solve1 can cover: (0, 0), where the seed tile goes, and positions
\* that each touch an earlier one.
Shapes ==
    {shape \in SUBSET ShapeGrid :
        Position(0, 0) \in shape /\ GrowFrom(shape, {Position(0, 0)}) = shape}

\* Ids 1..n, the tiles taken from the four asymmetric pool tiles in turn.
ShapeCatalog(n) == Catalog([id \in 1..n |-> ((id - 1) % 4) + 1])

\* The tiles of tls placed on shape, id after id, each next to the ones
\* placed before it.
RECURSIVE PlaceOn(_, _, _, _)
PlaceOn(sol, tls, shape, id) ==
    IF shape = {} THEN sol
    ELSE LET pos == IF Position(0, 0) \in shape THEN Position(0, 0)
                    ELSE CHOOSE p \in shape :
                           \E d \in Direction : occupied(sol, get_neighbour(p, d))
         IN  PlaceOn(place_tile(sol, id, tls[id], ManipulationNoop, pos).solution,
                     tls, shape \ {pos}, id + 1)

InitAssemble ==
    /\ \E shape \in Shapes :
          /\ tiles = ShapeCatalog(Cardinality(shape))
          /\ solution = PlaceOn(SolutionNew, ShapeCatalog(Cardinality(shape)), shape, 1)
    /\ initial_manip = ManipulationNoop
    /\ ix = EmptyMap
    /\ todo = {}
    /\ pc = "returned"
    /\ panic = ""
    /\ product = Unset
    /\ bitmap = Unset
    /\ mat = <<>> /\ manip = ManipulationNoop /\ other = <<>> /\ result = <<>>

NextAssemble ==
    \/ CornerProduct
    \/ AssembleBigBitmap

SpecAssemble == InitAssemble /\ [][NextAssemble]_vars

(***************************************************************************)
(* C11: a hole in the bounding rectangle                                   *)
(***************************************************************************)
\* C11: assemble_big_bitmap aborts ("missing tile") whenever a position of
\* the solution's bounding rectangle is unoccupied, and so returns a bitmap
\* for filled rectangles only; corner_product looks at the four corners only
\* and returns whenever these are occupied.
C11_HoleAbortsAssembly ==
    /\ bitmap.status # "unset" =>
         /\ bitmap.status = "returned" <=> FillsBox
         /\ ~FillsBox => (bitmap.status = "panic" /\ bitmap.panic = "missing tile")
    /\ product.status # "unset" =>
         (product.status = "returned" <=>
             \A i \in 1..4 : CornersOf(TrueExtrema)[i] \in Occupied)

\* A solution whose four corners are occupied and whose bounding rectangle
\* has a hole: corner_product has returned, assemble_big_bitmap has aborted.
C11_Witness ==
    /\ ~FillsBox
    /\ product.status = "returned"
    /\ bitmap.status = "panic"

(***************************************************************************)
(* find_image_locations called on its own                                  *)
(***************************************************************************)
\* Every 0/1 matrix with its number of rows and of columns in the two sets.
RectMatrices(heights, widths) ==
    UNION {[1..h -> [1..w -> {0, 1}]] : h \in heights, w \in widths}

\* The haystacks: up to MaxDim rows and columns, and the single rows one cell
\* longer, in which two occurrences of the longest mask row overlap.
Haystacks == RectMatrices(1..MaxDim, 1..MaxDim) \cup RectMatrices({1}, {MaxDim + 1})

Masks == RectMatrices(1..MaxDim, 1..MaxDim)

InitFind ==
    /\ mat \in Haystacks
    /\ other \in Masks
    /\ manip = ManipulationNoop
    /\ result = <<>>
    /\ pc = "start"
    /\ PipelineIdle

\* result = find_image_locations(&mat, &other)
FindImageLocations ==
    /\ pc = "start"
    /\ result' = find_image_locations(mat, other)
    /\ pc' = "searched"
    /\ UNCHANGED <<tiles, initial_manip, ix, solution, todo, panic, product, bitmap,
                   mat, manip, other>>

NextFind == FindImageLocations

SpecFind == InitFind /\ [][NextFind]_vars

(***************************************************************************)
(* C12: the occurrences of a mask                                          *)
(***************************************************************************)
\* The top-left offsets (0-based row and column) at which every 1 of mask
\* lies on a 1 of haystack.
Occurrences(haystack, mask) ==
    {at \in (0..(NRows(haystack) - NRows(mask))) \X (0..(NCols(haystack) - NCols(mask))) :
        \A r \in 1..NRows(mask) : \A c \in 1..NCols(mask) :
            mask[r][c] = 1 => haystack[at[1] + r][at[2] + c] = 1}

\* C12: find_image_locations returns as many locations as there are top-left
\* offsets at which every 1 of the mask lies on a 1 of the haystack; the 0s
\* of the mask do not constrain, and occurrences that overlap count each.
C12_LocationsCountOccurrences ==
    pc = "searched" => Len(result) = Cardinality(Occurrences(mat, other))

\* Two occurrences that share a cell, and one under a mask with a 0 in it.
C12_Witness ==
    /\ pc = "searched"
    /\ \/ mat = << <<1, 1, 1>> >> /\ other = << <<1, 1>> >> /\ Len(result) = 2
       \/ mat = << <<1, 1, 0>> >> /\ other = << <<0, 1>> >> /\ Len(result) = 1

(***************************************************************************)
(* part2: solve2 on the solution of a one-tile catalog                     *)
(***************************************************************************)
\* The side of a bitmap as wide as nessie, and of the tile around it.
SceneDim == NCols(nessie)

\* A bitmap with nessie's 1s copied in at the (0-based) rows of tops, from
\* column 0, and 1s at the cells of noise (1-based row and column).
Stamped(tops, noise) ==
    [r \in 1..SceneDim |-> [c \in 1..SceneDim |->
        IF \/ <<r, c>> \in noise
           \/ \E top \in tops : r - top \in 1..NRows(nessie) /\ nessie[r - top][c] = 1
        THEN 1 ELSE 0]]

\* The 1s of either bitmap.
Overlaid(a, b) ==
    [r \in 1..SceneDim |-> [c \in 1..SceneDim |-> IF a[r][c] = 1 \/ b[r][c] = 1 THEN 1 ELSE 0]]

\* The bitmaps part2 is run on: one nessie, bare and with other 1s around;
\* two apart; two that share a cell, bare and with other 1s around; none;
\* and two lying with one standing, mirrored.
Scenes ==
    { Stamped({0}, {}),
      Stamped({2}, {<<1, 1>>, <<9, 4>>}),
      Stamped({0, 3}, {<<12, 7>>}),
      Stamped({0, 1}, {}),
      Stamped({4, 5}, {<<1, 2>>, <<12, 7>>, <<20, 20>>}),
      Stamped({}, {<<1, 2>>, <<3, 7>>, <<10, 4>>}),
      Overlaid(Stamped({0, 3}, {}), On([rot |-> 1, flip |-> TRUE], Stamped({9}, {}))) }

\* The tile with the bitmap as its interior and 0s on its border.
Framed(scene) ==
    [r \in 1..(SceneDim + 2) |-> [c \in 1..(SceneDim + 2) |->
        IF r \in 2..(SceneDim + 1) /\ c \in 2..(SceneDim + 1)
        THEN scene[r - 1][c - 1] ELSE 0]]

InitPart2 ==
    /\ tiles \in {(1 :> Framed(scene)) : scene \in Scenes}
    /\ initial_manip = ManipulationNoop
    /\ ix = EmptyMap
    /\ solution = SolutionNew
    /\ todo = {}
    /\ pc = "start"
    /\ panic = ""
    /\ product = Unset
    /\ bitmap = Unset
    /\ mat = <<>> /\ manip = ManipulationNoop /\ other = <<>> /\ result = <<>>

\* part2: result is what solve2(tiles, solution) leaves behind, in a build
\* with overflow checks or without.
Part2 ==
    /\ pc = "returned"
    /\ IF DOMAIN tiles = {}
       THEN result' = [panic |-> "input contains no tiles", value |-> Usize(0)]
       ELSE \E first \in DOMAIN tiles : \E overflow_checks \in BOOLEAN :
              result' = solve2(tiles, solution, first, overflow_checks)
    /\ pc' = "part2 done"
    /\ UNCHANGED <<tiles, initial_manip, ix, solution, todo, panic, product, bitmap,
                   mat, manip, other>>

NextPart2 ==
    \/ MakeTileIndex
    \/ Solve1Seed
    \/ Solve1Return
    \/ Part2

SpecPart2 == InitPart2 /\ [][NextPart2]_vars

(***************************************************************************)
(* C13, C14, C15: the roughness                                            *)
(***************************************************************************)
\* The bitmap assembled from the solution.
Assembled == assemble_big_bitmap(tiles, solution, MinKey(DOMAIN tiles)).result

\* Rotation 0, 1, 2, 3 outside, flip false, true inside.
OrientationOrder ==
    << [rot |-> 0, flip |-> FALSE], [rot |-> 0, flip |-> TRUE],
       [rot |-> 1, flip |-> FALSE], [rot |-> 1, flip |-> TRUE],
       [rot |-> 2, flip |-> FALSE], [rot |-> 2, flip |-> TRUE],
       [rot |-> 3, flip |-> FALSE], [rot |-> 3, flip |-> TRUE] >>

Oriented(i) == On(OrientationOrder[i], Assembled)

\* The orientations in which nessie occurs.
WithNessie == {i \in 1..8 : Occurrences(Oriented(i), nessie) # {}}

Ones(m) == {rc \in (1..NRows(m)) \X (1..NCols(m)) : m[rc[1]][rc[2]] = 1}

\* H - 15k of a bitmap: its 1s less 15 for each occurrence of nessie.
HMinus15K(m) == Cardinality(Ones(m)) - 15 * Cardinality(Occurrences(m, nessie))

\* The cells under a 1 of nessie in some occurrence.
Covered(m) ==
    {rc \in (1..NRows(m)) \X (1..NCols(m)) :
        \E at \in Occurrences(m, nessie) :
            /\ rc[1] - at[1] \in 1..NRows(nessie)
            /\ rc[2] - at[2] \in 1..NCols(nessie)
            /\ nessie[rc[1] - at[1]][rc[2] - at[2]] = 1}

\* solve2 has returned the number n.
Returned(n) == result.panic = "" /\ result.value.pow64 = 0 /\ result.value.plus = n

\* C13: nessie is 3 rows of 20 cells, 15 of them 1, and whenever solve2
\* returns, it returns H - 15k for the first orientation with an occurrence.
C13_RoughnessIsHMinus15K ==
    /\ NRows(nessie) = 3
    /\ \A r \in 1..3 : Len(nessie[r]) = 20
    /\ Cardinality(Ones(nessie)) = 15
    /\ (pc = "part2 done" /\ result.panic = "") =>
           Returned(HMinus15K(Oriented(MinKey(WithNessie))))

\* C14: whenever solve2 returns, it returns the number of 1s of the oriented
\* bitmap that no occurrence of nessie covers with one of its 1s.
C14_RoughnessIsUncoveredCells ==
    (pc = "part2 done" /\ result.panic = "") =>
        LET m == Oriented(MinKey(WithNessie))
        IN  Returned(Cardinality(Ones(m) \ Covered(m)))

\* C15 as stated: solve2 aborts with 'found no sea monsters' exactly when no
\* orientation has an occurrence; otherwise it returns the roughness of the
\* first orientation that has one, and no other orientation has one.
C15_OnlyOrientationWithNessie ==
    pc = "part2 done" =>
        /\ result.panic = "found no sea monsters" <=> WithNessie = {}
        /\ WithNessie # {} =>
             /\ Returned(HMinus15K(Oriented(MinKey(WithNessie))))
             /\ WithNessie = {MinKey(WithNessie)}

\* What measure_roughness makes of a difference d: d when it is not below 0,
\* else the overflow panic or d wrapped around.
DifferenceOutcome(d) ==
    IF d >= 0 THEN Returned(d)
    ELSE \/ result.panic = "attempt to subtract with overflow"
         \/ result.panic = "" /\ result.value.pow64 = 1 /\ result.value.plus = d

\* C15 amended: solve2 aborts with 'found no sea monsters' exactly when no
\* orientation has an occurrence; otherwise its outcome is H - 15k of the
\* first orientation that has one, taken in usize; other orientations may
\* have occurrences as well.
C15_FirstOrientationWithNessie ==
    pc = "part2 done" =>
        /\ result.panic = "found no sea monsters" <=> WithNessie = {}
        /\ WithNessie # {} =>
             DifferenceOutcome(HMinus15K(Oriented(MinKey(WithNessie))))

\* Nessie occurs in two orientations, neither the first tried, and the
\* roughness returned is that of the earlier one and not that of the later.
C15_Witness ==
    /\ pc = "part2 done"
    /\ Cardinality(WithNessie) = 2
    /\ MinKey(WithNessie) > 1
    /\ Returned(HMinus15K(Oriented(MinKey(WithNessie))))
    /\ \E i \in WithNessie : ~Returned(HMinus15K(Oriented(i)))

(***************************************************************************)
(* C16: make_tile_index on a tile with a symmetry                          *)
(***************************************************************************)
\* C16: make_tile_index returns an index for every catalog, catalogs with a
\* symmetric tile included: the run does not end in make_tile_index.
C16_IndexAlwaysBuilt ==
    pc = "panicked" => panic # "assertion failed: seen_keys.get(&mk).unwrap().len() == 1"

(***************************************************************************)
(* read_tiles called on files of records                                   *)
(***************************************************************************)
Title(digits) == <<"T", "i", "l", "e", " ">> \o digits \o <<":">>

TitleLines ==
    { Title(<<"1">>), Title(<<"2">>), Title(<<"1", "2">>), Title(<<>>),
      Title(<<"4", "2", "9", "4", "9", "6", "7", "2", "9", "6">>),
      <<"T", "i", "l", "e", " ", "1">>, <<>> }

\* The lines of '#' and '.' up to MaxDim long, and three more: a character
\* that is neither, and two lines of three characters.
RowLines ==
    UNION {[1..n -> {"#", "."}] : n \in 1..MaxDim}
        \cup {<<"x">>, <<"#", "#", "x">>, <<"#", ".", "#">>}

Records ==
    {[title |-> title, rows |-> rows] :
        title \in TitleLines, rows \in UNION {[1..k -> RowLines] : k \in 0..MaxDim}}

\* What follows the first record, if anything: a 1x1 tile, a 2x2 tile, a
\* tile with the id 1 again, a record that is no tile.
SecondRecords ==
    { [title |-> Title(<<"3">>), rows |-> << <<"#">> >>],
      [title |-> Title(<<"3">>), rows |-> << <<"#", ".">>, <<".", ".">> >>],
      [title |-> Title(<<"1">>), rows |-> << <<".">> >>],
      [title |-> <<"T", "i", "l", "e">>, rows |-> <<>>] }

InitReadTiles ==
    /\ mat \in {<<first>> : first \in Records}
                 \cup {<<first, second>> : first \in Records, second \in SecondRecords}
    /\ other = <<>>
    /\ manip = ManipulationNoop
    /\ result = <<>>
    /\ pc = "start"
    /\ PipelineIdle

\* result = read_tiles(mat), or its panic
ReadTiles ==
    /\ pc = "start"
    /\ result' = read_tiles(mat)
    /\ pc' = "read"
    /\ UNCHANGED <<tiles, initial_manip, ix, solution, todo, panic, product, bitmap,
                   mat, manip, other>>

NextReadTiles == ReadTiles

SpecReadTiles == InitReadTiles /\ [][NextReadTiles]_vars

(***************************************************************************)
(* C17: what read_tiles accepts                                            *)
(***************************************************************************)
\* A 'Tile <decimal-id>:' line.
IsTitle(line) ==
    /\ Len(line) >= 7
    /\ SubSeq(line, 1, 5) = <<"T", "i", "l", "e", " ">>
    /\ line[Len(line)] = ":"
    /\ \A i \in 6..(Len(line) - 1) : line[i] \in DOMAIN Digit

\* n rows of n characters '#' or '.'.
IsSquareOf(rows, n) ==
    /\ Len(rows) = n
    /\ \A r \in 1..n : Len(rows[r]) = n /\ \A c \in 1..n : rows[r][c] \in {"#", "."}

\* C17: read_tiles accepts a file only if every record is a title line
\* followed by N rows of N characters '#' or '.', with one N for the file;
\* every other file aborts in read_tiles.
C17_OnlyWellFormedAccepted ==
    (pc = "read" /\ result.panic = "") =>
        \E n \in 1..(MaxDim + 1) :
            \A i \in DOMAIN mat : IsTitle(mat[i].title) /\ IsSquareOf(mat[i].rows, n)

(***************************************************************************)
(* C18: the order of the tile map                                          *)
(***************************************************************************)
\* The index built with the tiles met in ascending order of id.
AscendingIndex ==
    make_tile_index(tiles,
        CHOOSE o \in IterationOrders(DOMAIN tiles) : \A i, j \in DOMAIN o : i < j => o[i] < o[j])

\* The step from pc = "start" ends as the build in ascending order does.
SameBuild(canon) ==
    IF canon.panic # "" THEN pc' = "panicked" /\ panic' = canon.panic
    ELSE pc' = "indexed" /\ DOMAIN ix' = DOMAIN canon.ix

\* The turn of solve1's loop ends as it does with the index got.
SameTurn(got) ==
    IF got.panic # ""
    THEN pc' = "panicked" /\ panic' = got.panic /\ solution' = solution /\ todo' = todo
    ELSE pc' = "solving" /\ solution' = got.solution /\ todo' = got.todo

\* C18: whatever the order in which the tile map is iterated and the order
\* of the entries of the index lists that results, the index is built or
\* not alike, and every turn of solve1's loop places the same tile at the
\* same position with the same manipulation, or fails alike, as with the
\* index built in ascending order of id.
C18_Reproducible ==
    [][/\ pc = "start" => SameBuild(AscendingIndex)
       /\ (pc = "solving" /\ todo # {}) =>
              SameTurn(solve1x(tiles, AscendingIndex.ix, solution, todo))]_vars

\* A solution of three tiles or more returned with an index whose lists are
\* not in the order of the ascending build.
C18_Witness ==
    /\ pc = "returned"
    /\ Cardinality(Placed) >= 3
    /\ ix # AscendingIndex.ix

(***************************************************************************)
(* C19: the commit rule                                                    *)
(***************************************************************************)
\* C19: a scan that starts with a frontier position for which exactly one
\* (unplaced tile, manipulation) pair passes against all placed neighbours
\* places a tile and does not panic.
C19_SolePairIsPlaced ==
    [][(/\ pc = "solving" /\ todo # {}
        /\ \E p \in Frontier : Cardinality(PassingPairs(p)) = 1) =>
           (pc' = "solving" /\ Cardinality(todo') = Cardinality(todo) - 1)]_vars

(***************************************************************************)
(* C20: exposed_edges                                                      *)
(***************************************************************************)
\* The sides of placed tiles that face an unoccupied position, each with its
\* position, direction and fingerprint.
BoundaryEdges ==
    {[edge_pattern |-> from_matrix(d, PlacedMatrix(solution.position_to_tile[p])),
      pos |-> p, direction |-> d] :
        <<p, d>> \in {pd \in Occupied \X Direction : get_neighbour(pd[1], pd[2]) \notin Occupied}}

\* C20: in every solver state exposed_edges lists exactly the sides of placed
\* tiles that face an unoccupied position, each once: no side facing an
\* occupied position stays, none is missing.
C20_ExposedEdgesAreBoundary ==
    /\ {solution.exposed_edges[i] : i \in DOMAIN solution.exposed_edges} = BoundaryEdges
    /\ Len(solution.exposed_edges) = Cardinality(BoundaryEdges)

\* Four tiles in a 2x2 block: eight sides are exposed and eight are covered.
C20_Witness ==
    /\ Cardinality(Placed) = 4
    /\ FillsBox
    /\ Len(solution.exposed_edges) = 8

(***************************************************************************)
(* C21: the two maps of TileLocationSolution                               *)
(***************************************************************************)
\* C21: in every state tile_to_position and position_to_tile are mutual
\* inverses: position_to_tile[p] = t exactly when tile_to_position[t] is at
\* p; so no tile is at two positions, no position holds two tiles, and the
\* maps have the same size.
C21_MapsAreMutualInverses ==
    /\ \A p \in Occupied :
         /\ solution.position_to_tile[p] \in Placed
         /\ PositionOf(solution.position_to_tile[p]) = p
    /\ \A t \in Placed :
         /\ PositionOf(t) \in Occupied
         /\ solution.position_to_tile[PositionOf(t)] = t
    /\ Cardinality(Placed) = Cardinality(Occupied)

\* Three tiles or more are placed.
C21_Witness == Cardinality(Placed) >= 3 /\ Cardinality(Occupied) >= 3

(***************************************************************************)
(* C22: solve1 terminates                                                  *)
(***************************************************************************)
\* A turn of solve1's loop either placed exactly one tile or aborted.
C22_Turn ==
    (pc = "solving" /\ todo # {}) =>
        \/ /\ pc' = "solving"
           /\ Cardinality(todo') = Cardinality(todo) - 1
           /\ Cardinality(DOMAIN solution'.tile_to_position) = Cardinality(Placed) + 1
        \/ /\ pc' = "panicked"
           /\ solution' = solution /\ todo' = todo

\* After the seed the unplaced tiles are those not placed, at most
\* |tiles| - 1 of them, and a solution is returned with none left.
C22_ScansLeft ==
    /\ pc = "solving" =>
         /\ Cardinality(todo) = Cardinality(DOMAIN tiles) - Cardinality(Placed)
         /\ Cardinality(todo) <= Cardinality(DOMAIN tiles) - 1
    /\ pc = "returned" => todo = {}

\* C22: solve1 terminates: each call of solve1x places exactly one tile or
\* aborts, at most |tiles| - 1 scans follow the seed, solve1 returns only
\* with no tile unplaced, and every run of solve1 ends by returning or
\* aborting.
C22_Solve1Terminates ==
    /\ [][C22_Turn]_vars
    /\ []C22_ScansLeft
    /\ (pc = "indexed" ~> pc \in {"returned", "panicked"})

\* solve1 returned after three scans.
C22_Witness == pc = "returned" /\ Cardinality(DOMAIN tiles) = 4 /\ todo = {}

(***************************************************************************)
(* C23: the seed                                                           *)
(***************************************************************************)
\* The lowest tile id lies at (0,0) in the seed manipulation.
SeedInPlace ==
    LET lowest == Least(DOMAIN tiles)
    IN  /\ lowest \in Placed
        /\ solution.tile_to_position[lowest]
               = [pos |-> Position(0, 0), manipulation |-> initial_manip]
        /\ Position(0, 0) \in Occupied
        /\ solution.position_to_tile[Position(0, 0)] = lowest

\* C23: solve1 first places the tile with the lowest id at (0,0) in the seed
\* manipulation it was given; the tile stays there in that manipulation in
\* every later state and in the returned solution; for an empty catalog
\* solve1 returns the empty solution.
C23_SeedStaysAtOrigin ==
    /\ (pc \in {"solving", "returned"} /\ DOMAIN tiles # {}) => SeedInPlace
    /\ Placed # {} => SeedInPlace
    /\ (pc = "returned" /\ DOMAIN tiles = {}) => solution = SolutionNew

\* A returned solution of three tiles or more, seeded with a manipulation
\* other than the identity.
C23_Witness ==
    /\ pc = "returned"
    /\ Cardinality(Placed) >= 3
    /\ initial_manip # ManipulationNoop

(***************************************************************************)
(* C24: get_candidates                                                     *)
(***************************************************************************)
\* The (tile, manipulation) pairs of a candidate map.
CandidatePairs(candidates) ==
    {<<t, candidates[t][k]>> : <<t, k>> \in
        {tk \in (DOMAIN candidates) \X (1..Len(ManipulationAll) * Len(DirectionAll)) :
            tk[2] <= Len(candidates[tk[1]])}}

\* The empty position an exposed edge faces.
Faced(exposed_edge) == get_neighbour(exposed_edge.pos, exposed_edge.direction)

\* C24: in every state of solve1's loop, for every exposed edge, the pairs
\* get_candidates returns are exactly the pairs of an unplaced tile and a
\* manipulation whose matrix edge-matches every placed neighbour of the
\* position the edge faces; so two edges facing one position give the same
\* pairs.
C24_CandidatesArePassingPairs ==
    pc = "solving" =>
        \A i \in DOMAIN solution.exposed_edges :
            LET got == get_candidates(tiles, ix, solution, solution.exposed_edges[i])
            IN  /\ got.panic = ""
                /\ CandidatePairs(got.candidates)
                       = PassingPairs(Faced(solution.exposed_edges[i]))

\* Two exposed edges face one empty position at which some pair passes.
C24_Witness ==
    /\ pc = "solving"
    /\ \E i, j \in DOMAIN solution.exposed_edges :
         /\ i # j
         /\ Faced(solution.exposed_edges[i]) = Faced(solution.exposed_edges[j])
         /\ PassingPairs(Faced(solution.exposed_edges[i])) # {}

(***************************************************************************)
(* C25: make_tile_index                                                    *)
(***************************************************************************)
\* The places (key, number in the list) of the index.
IndexPlaces == {ki \in (DOMAIN ix) \X (1..(Len(ManipulationAll) * Len(DirectionAll)
                                           * Cardinality(DOMAIN tiles))) :
                    ki[2] <= Len(ix[ki[1]])}

\* The entry of tile t in manipulation m.
Entry(t, m) == [tile_id |-> t, manipulation |-> m]

\* C25: the index make_tile_index returns is complete and sound: for every
\* tile, manipulation and side, the list under the fingerprint of that side
\* of the manipulated tile holds the tile's entry; every entry under a key
\* has the key as the fingerprint of one of its sides; a key is a
\* fingerprint alone, without a direction; every tile has 8 * 4 entries.
C25_IndexCompleteAndSound ==
    pc = "indexed" =>
        /\ \A t \in DOMAIN tiles : \A m \in Manipulations : \A d \in Direction :
             LET k == from_matrix(d, On(m, tiles[t]))
             IN  /\ k \in DOMAIN ix
                 /\ \E i \in DOMAIN ix[k] : ix[k][i] = Entry(t, m)
        /\ \A ki \in IndexPlaces :
             LET e == ix[ki[1]][ki[2]]
             IN  /\ e.tile_id \in DOMAIN tiles
                 /\ e.manipulation \in Manipulations
                 /\ \E d \in Direction :
                      ki[1] = from_matrix(d, On(e.manipulation, tiles[e.tile_id]))
        /\ \A k \in DOMAIN ix : k \in Nat
        /\ \A t \in DOMAIN tiles :
             Cardinality({ki \in IndexPlaces : ix[ki[1]][ki[2]].tile_id = t})
                 = Len(ManipulationAll) * Len(DirectionAll)

\* An index of two tiles or more in which one list holds an entry twice: a
\* manipulated tile with one fingerprint on two sides.
C25_Witness ==
    /\ pc = "indexed"
    /\ Cardinality(DOMAIN tiles) >= 2
    /\ \E k \in DOMAIN ix : \E i, j \in DOMAIN ix[k] : i # j /\ ix[k][i] = ix[k][j]

(***************************************************************************)
(* C26: Unplaced to Placed                                                 *)
(***************************************************************************)
\* The tiles not placed.
Unplaced == DOMAIN tiles \ Placed

\* The step is one call of place for an unplaced tile.
IsOnePlace ==
    \E t \in Unplaced : \E m \in Manipulations : \E p \in Frontier \cup {Position(0, 0)} :
        LET placed == place(t, m, p, tiles, solution, Unplaced)
        IN  /\ placed.panic = ""
            /\ solution' = placed.solution
            /\ todo' = placed.todo

\* A step changes the solution only by one place, which adds one tile, and
\* leaves every placed tile where and how it lies.
C26_Step ==
    /\ solution' # solution =>
         /\ IsOnePlace
         /\ Cardinality(DOMAIN solution'.tile_to_position) = Cardinality(Placed) + 1
    /\ \A t \in Placed :
         /\ t \in DOMAIN solution'.tile_to_position
         /\ solution'.tile_to_position[t] = solution.tile_to_position[t]
         /\ PositionOf(t) \in DOMAIN solution'.position_to_tile
         /\ solution'.position_to_tile[PositionOf(t)] = t

\* From the seed on, todo is the catalog ids less the placed ids.
C26_Todo == (pc \in {"solving", "returned"} \/ Placed # {}) => todo = Unplaced

\* C26: tiles only move from Unplaced to Placed: the solution changes only
\* by place, each place adds exactly one tile, a placed tile's position and
\* manipulation are never changed or removed afterwards, and todo is always
\* the catalog ids less the placed ids.
C26_OnlyUnplacedToPlaced == [][C26_Step]_vars /\ []C26_Todo

\* Three tiles placed and one still unplaced.
C26_Witness == pc = "solving" /\ Cardinality(Placed) = 3 /\ Cardinality(todo) = 1

(***************************************************************************)
(* C27: the consistency failures of solve1                                 *)
(***************************************************************************)
\* Every exposed edge has its fingerprint in the index and faces an empty
\* position.
EdgesConsistent ==
    \A i \in DOMAIN solution.exposed_edges :
        /\ solution.exposed_edges[i].edge_pattern \in DOMAIN ix
        /\ Faced(solution.exposed_edges[i]) \notin Occupied
        /\ get_tile_at_position(solution, Faced(solution.exposed_edges[i])) = <<>>

\* An abort inside solve1 is the no-progress abort.
AbortInSolve1 ==
    (pc \in {"indexed", "solving"} /\ pc' = "panicked") => panic' \in NoProgress

\* C27: in a run of solve1 over the index make_tile_index built from the
\* same tiles, every exposed fingerprint is a key of the index, every
\* exposed edge faces an unoccupied position, and solve1 aborts only for
\* lack of progress: neither 'edge missing from index' nor a failure of
\* place or candidate_fits_neighbours is reached.
C27_OnlyNoProgressAborts ==
    /\ [](pc = "solving" => EdgesConsistent)
    /\ [][AbortInSolve1]_vars

\* solve1 aborted for lack of progress with three tiles placed and one left.
C27_Witness ==
    /\ pc = "panicked"
    /\ panic = "solve1x: failed to make any progress"
    /\ Cardinality(Placed) = 3
    /\ Cardinality(Unplaced) = 1
    /\ EdgesConsistent

(***************************************************************************)
(* C28: the manipulation lists of get_candidates                           *)
(***************************************************************************)
\* No element occurs twice in the sequence.
NoRepeat(list) == \A i, j \in DOMAIN list : i # j => list[i] # list[j]

\* C28: for every exposed edge and every tile, the manipulation list
\* get_candidates returns for the tile holds no manipulation twice, so the
\* only pair that fits a position is a list of one element.
C28_NoManipulationTwice ==
    pc = "solving" =>
        \A i \in DOMAIN solution.exposed_edges :
            LET got == get_candidates(tiles, ix, solution, solution.exposed_edges[i])
            IN  \A t \in DOMAIN got.candidates : NoRepeat(got.candidates[t])

(***************************************************************************)
(* C29: the coordinates find_image_locations returns                       *)
(***************************************************************************)
\* C29: every (x, y) find_image_locations returns is the column and row of
\* the top-left cell of a window at which the mask matches.
C29_LocationsAreMatchOffsets ==
    pc = "searched" =>
        \A k \in DOMAIN result : <<result[k].y, result[k].x>> \in Occurrences(mat, other)

(***************************************************************************)
(* C30: the subtraction of measure_roughness                               *)
(***************************************************************************)
\* C30: the subtraction of measure_roughness never goes below 0: in every
\* orientation of the bitmap, the locations found times the 1s of nessie are
\* at most the 1s of the bitmap, and solve2 neither panics on the
\* subtraction nor returns a wrapped value.
C30_NoUnderflow ==
    pc = "part2 done" =>
        /\ \A i \in 1..8 :
             Len(find_image_locations(Oriented(i), nessie)) * count_ones(nessie)
                 <= count_ones(Oriented(i))
        /\ result.panic # "attempt to subtract with overflow"
        /\ result.value.pow64 = 0

====
